---------------------------- MODULE Spec2Model ----------------------------
(***************************************************************************)
(* A model of the cwrappers wrapper finder: the per-path counter, the      *)
(* helper-hop resolver, the strict-plus and relaxed wrapper decisions, and *)
(* the driver that turns translation units into rows and call-graph edges. *)
(*                                                                         *)
(* An AST cursor is a record [kind, name, kids]: kind is the libclang      *)
(* cursor kind, name the spelling (the callee of a CALL_EXPR, the variable *)
(* of a DECL_REF_EXPR or VAR_DECL), kids the sequence get_children() gives.*)
(* A source location inside a function is the path of child indices from  *)
(* the function body to the cursor, which is unique per cursor.            *)
(***************************************************************************)
EXTENDS Integers, Sequences, FiniteSets, TLC

VARIABLES
    pc,         \* position of the driver / of the analysis under study
    fn,         \* analyzer: the function definition under analysis
    cat,        \* analyzer: the thin-alias set of the catalog in use
    res,        \* analyzer: the tuple returned by the last wrapper decision
    stmt,       \* analyzer: the statement handed to analyze_stmt
    hops,       \* analyzer: the max_helper_hops handed to analyze_stmt
    pr,         \* analyzer: the PathResult analyze_stmt returned for stmt
    arg_ret_pass, \* analyzer: arg_pass and ret_pass computed for fn and an API
    walk,       \* helper hops: the resolution of one call, frame by frame
    mode,       \* driver: args.mode after the legacy mapping
    policy,     \* driver: args.treat_thin_alias
    todo,       \* driver: translation units of file_to_args not yet processed
    tu,         \* driver: the translation unit being processed
    parses,     \* driver: the calls of index.parse so far: src, args, outcome
    rows,       \* driver: rows (a sequence of Row records)
    seen_keys,  \* driver: dedup keys of the rows appended so far
    all_edges,  \* driver: DetailedEdge records of all parsed translation units
    written,    \* driver: edges write_callgraph wrote to callgraph_edges.csv
    sys_argv,   \* command line: the invocation of the entry point
    exit_code   \* command line: the exit code, NotExited while running

vars == <<pc, fn, cat, res, stmt, hops, pr, arg_ret_pass, walk, mode, policy, todo, tu, parses,
          rows, seen_keys, all_edges, written, sys_argv, exit_code>>

-----------------------------------------------------------------------------
(* Cursors *)

Node(k, n, ks) == [kind |-> k, name |-> n, kids |-> ks]

NoNode == Node("NONE", "", <<>>)

Ref(v) == Node("DECL_REF_EXPR", v, <<>>)

Unexp(e) == Node("UNEXPOSED_EXPR", "", <<e>>)

Lit == Node("INTEGER_LITERAL", "", <<>>)

Paren(e) == Node("PAREN_EXPR", "", <<e>>)

\* An rvalue use of variable v: the implicit lvalue-to-rvalue cast is unexposed.
Use(v) == Unexp(Ref(v))

\* f(args): the first child is the callee reference, the rest the arguments.
Call(f, args) == Node("CALL_EXPR", f, <<Unexp(Ref(f))>> \o args)

\* The first argument of syscall(SYS_x, ...): its tokens spell SYS_x or __NR_x.
SysSelector(x) == Node("SYS_TOKEN", x, <<>>)

Return(e) == Node("RETURN_STMT", "", <<e>>)

Compound(ss) == Node("COMPOUND_STMT", "", ss)

DeclStmt(v, init) == Node("DECL_STMT", "", <<Node("VAR_DECL", v, <<init>>)>>)

Assign(v, e) == Node("BINARY_OPERATOR", "=", <<Ref(v), e>>)

Cond == Node("BINARY_OPERATOR", "<", <<Use("fd"), Lit>>)

If(t) == Node("IF_STMT", "", <<Cond, t>>)

IfElse(t, e) == Node("IF_STMT", "", <<Cond, t, e>>)

\* for (int i = 0; i < 10; i++) body
For(body) == Node("FOR_STMT", "",
                  <<DeclStmt("i", Lit), Node("BINARY_OPERATOR", "<", <<Use("i"), Lit>>),
                    Node("UNARY_OPERATOR", "++", <<Ref("i")>>), body>>)

While(body) == Node("WHILE_STMT", "", <<Cond, body>>)

Case(body) == Node("CASE_STMT", "", <<Lit, body>>)

Default(body) == Node("DEFAULT_STMT", "", <<body>>)

Switch(body) == Node("SWITCH_STMT", "", <<Use("fd"), body>>)

Ternary(t, e) == Node("CONDITIONAL_OPERATOR", "", <<Cond, t, e>>)

-----------------------------------------------------------------------------
(* Catalog *)

\* ApiCatalog.target_names of the catalog in use.
target_names == {"close", "open", "getpid"}

\* HelperConfig: a regex is modelled by the set of names it matches.
HelperConfig == [benign |-> {"log"}, benign_regex |-> {"trace_io"},
                 helpers |-> {"dbg"}, helpers_regex |-> {"dbg_io"}]

any_match(h, name, which) ==
    IF which = "benign"
    THEN name \in h.benign \/ name \in h.benign_regex
    ELSE name \in h.helpers \/ name \in h.helpers_regex

callee_name(call) == call.name

is_helper_call(call, h, kind) ==
    any_match(h, callee_name(call), IF kind = "benign" THEN "benign" ELSE "helpers")

-----------------------------------------------------------------------------
(* Function cursors visible in a translation unit *)

\* get_usr() of a function with external linkage depends on its name only;
\* that of a static function also on the file that holds it.
ExternUSR(n) == <<"c:@F@", n>>

StaticUSR(file, n) == <<"c:", file, "@F@", n>>

\* A FUNCTION_DECL cursor: its spelling, location (file, line), USR, result
\* type, parameters and body; body is NoNode for a declaration without a body.
FuncAt(n, file, line, usr, ps, b) ==
    [name |-> n, file |-> file, line |-> line, usr |-> usr, result_type |-> "int",
     params |-> ps, body |-> b]

Func(n, ps, b) == FuncAt(n, "w.c", 1, ExternUSR(n), ps, b)

NoDef == FuncAt("", "", 0, <<>>, <<>>, NoNode)

CallStmt(f) == Call(f, <<Use("fd")>>)

\* util.h:  static int h1(int fd) { close(fd); return 0; }
\*          static int h2(int fd) { h1(fd); return 0; }
\*          static int hr(int fd) { hr(fd); return 0; }
H1 == FuncAt("h1", "util.h", 1, StaticUSR("util.h", "h1"), <<"fd">>,
             Compound(<<CallStmt("close"), Return(Lit)>>))

H2 == FuncAt("h2", "util.h", 2, StaticUSR("util.h", "h2"), <<"fd">>,
             Compound(<<CallStmt("h1"), Return(Lit)>>))

HR == FuncAt("hr", "util.h", 3, StaticUSR("util.h", "hr"), <<"fd">>,
             Compound(<<CallStmt("hr"), Return(Lit)>>))

\* pure.h:  static int g(int fd) { return 0; }
G == FuncAt("g", "pure.h", 1, StaticUSR("pure.h", "g"), <<"fd">>, Compound(<<Return(Lit)>>))

\* q.c:     int k(int fd) { return 0; }
K == FuncAt("k", "q.c", 2, ExternUSR("k"), <<"fd">>, Compound(<<Return(Lit)>>))

\* The definitions a call can resolve to (get_definition of the callee).
HelperDefs == {H1, H2, HR, G, K}

\* Functions that are declared (by a header) and have no body in sight.
DeclaredOnly == {"close", "open", "getpid", "log", "dbg", "foo", "syscall"}

callee_definition(call) ==
    IF \E d \in HelperDefs : d.name = call.name
    THEN CHOOSE d \in HelperDefs : d.name = call.name
    ELSE IF call.name \in DeclaredOnly
         THEN FuncAt(call.name, "unistd.h", 1, ExternUSR(call.name), <<"fd">>, NoNode)
    ELSE NoDef

function_body_cursor(f) == f.body

\* The cursors of ks that are not declaration statements, in order.
NonDecl(ks) == SelectSeq(ks, LAMBDA c : c.kind # "DECL_STMT")

MaxSmallStmts == 6

is_small_function(f) ==
    /\ function_body_cursor(f) # NoNode
    /\ Len(NonDecl(function_body_cursor(f).kids)) <= MaxSmallStmts

-----------------------------------------------------------------------------
(* Helper-hop resolver *)

call_hits_target_via_one_hop(call, targets) ==
    LET callee == callee_definition(call)
        body == function_body_cursor(callee)
    IN  /\ callee # NoDef
        /\ body # NoNode
        /\ \E i \in 1..Len(body.kids) :
              body.kids[i].kind = "CALL_EXPR" /\ callee_name(body.kids[i]) \in targets

inner_target_from_one_hop(call, targets) ==
    LET callee == callee_definition(call)
        body == function_body_cursor(callee)
        hitsAt == {i \in 1..Len(body.kids) :
                     body.kids[i].kind = "CALL_EXPR" /\ callee_name(body.kids[i]) \in targets}
    IN  IF callee = NoDef \/ body = NoNode \/ hitsAt = {} THEN ""
        ELSE callee_name(body.kids[CHOOSE i \in hitsAt : \A j \in hitsAt : i <= j])

\* The seen test without the set: no callee counts as entered.
never_entered(callee, seen) == FALSE

\* hid in seen: the callee was entered earlier in this resolution.
already_entered(callee, seen) == callee.name \in seen

\* The bounded DFS; seen is the set the recursion shares, returned with the
\* answer, and entered lists the callees whose body children were iterated,
\* each with the max_hops its body was entered with.
RECURSIVE n_hops(_, _, _, _, _)
n_hops(call, targets, max_hops, seen, entered) ==
    LET callee == callee_definition(call)
        miss(s, t) == [hit |-> FALSE, seen |-> s, entered |-> t]
    IN  IF max_hops < 1 THEN miss(seen, entered)
        ELSE IF callee = NoDef \/ ~is_small_function(callee) THEN miss(seen, entered)
        ELSE IF already_entered(callee, seen) THEN miss(seen, entered)
        ELSE LET kids == function_body_cursor(callee).kids
                 RECURSIVE scan(_, _, _)
                 scan(i, s, t) ==
                     IF i > Len(kids) THEN miss(s, t)
                     ELSE IF kids[i].kind # "CALL_EXPR" THEN scan(i + 1, s, t)
                     ELSE IF callee_name(kids[i]) \in targets
                          THEN [hit |-> TRUE, seen |-> s, entered |-> t]
                     ELSE LET r == n_hops(kids[i], targets, max_hops - 1, s, t)
                          IN  IF r.hit THEN r ELSE scan(i + 1, r.seen, r.entered)
             IN  scan(1, seen \cup {callee.name},
                      Append(entered, [callee |-> callee.name, max_hops |-> max_hops]))

call_hits_target_via_n_hops(call, targets, max_hops) ==
    n_hops(call, targets, max_hops, {}, <<>>).hit

\* SYSNR_TO_NAME is empty, so only the textual SYS_x / __NR_x form resolves.
resolve_syscall_indirection(call) ==
    IF callee_name(call) # "syscall" \/ Len(call.kids) < 2 THEN ""
    ELSE IF call.kids[2].kind = "SYS_TOKEN" THEN call.kids[2].name ELSE ""

-----------------------------------------------------------------------------
(* Per-expression counting *)

\* What one CALL_EXPR adds to a count: benign helper, target, syscall
\* indirection, helper hop, in that order.
call_count(call, targets, helpers, max_helper_hops) ==
    IF is_helper_call(call, helpers, "benign") THEN 0
    ELSE IF callee_name(call) \in targets THEN 1
    ELSE IF resolve_syscall_indirection(call) \in targets THEN 1
    ELSE IF \/ call_hits_target_via_one_hop(call, targets)
            \/ (max_helper_hops > 1
                /\ call_hits_target_via_n_hops(call, targets, max_helper_hops))
         THEN 1
    ELSE 0

\* Counts the target calls among the descendants of node; node itself is
\* not looked at.
RECURSIVE count_calls_in_expr(_, _, _, _)
count_calls_in_expr(node, targets, helpers, max_helper_hops) ==
    LET kids == node.kids
        RECURSIVE sum(_)
        sum(i) ==
            IF i > Len(kids) THEN 0
            ELSE (IF kids[i].kind = "CALL_EXPR"
                  THEN call_count(kids[i], targets, helpers, max_helper_hops)
                  ELSE 0)
                 + count_calls_in_expr(kids[i], targets, helpers, max_helper_hops)
                 + sum(i + 1)
    IN  sum(1)

-----------------------------------------------------------------------------
(* Per-path summary *)

PathResult(c, u) == [counts |-> c, unknown |-> u]

merge_pr(a, b) == PathResult(a.counts \cup b.counts, a.unknown \/ b.unknown)

SatCap == 2

\* cap_union without the cap: the sums are kept as they come.
cap_union_unsaturated(sumset, val) ==
    {s + val : s \in (IF sumset = {} THEN {0} ELSE sumset)}

\* cap_union without the accumulator: only the last statement counts.
cap_union_last_only(sumset, val) == {val}

cap_union(sumset, val) ==
    {IF s + val <= SatCap THEN s + val ELSE SatCap :
        s \in (IF sumset = {} THEN {0} ELSE sumset)}

\* The body a loop statement is analyzed with: its last COMPOUND_STMT child.
loop_body(kids) ==
    LET at == {i \in 1..Len(kids) : kids[i].kind = "COMPOUND_STMT"}
    IN  IF at = {} THEN NoNode ELSE kids[CHOOSE i \in at : \A j \in at : j <= i]

\* The unknown flag of a compound statement if each child overwrote it.
last_child_unknown(unknown, child) == child.unknown

\* unknown = unknown or child.unknown, per child of a compound statement.
accumulate_unknown(unknown, child) == unknown \/ child.unknown

RECURSIVE analyze_stmt(_, _, _, _)
analyze_stmt(s, targets, helpers, max_helper_hops) ==
    LET kind == s.kind
        kids == s.kids
        sub(c) == analyze_stmt(c, targets, helpers, max_helper_hops)
        zero == PathResult({0}, FALSE)
    IN
    CASE kind = "RETURN_STMT" ->
            LET RECURSIVE sum(_)
                sum(i) == IF i > Len(kids) THEN 0
                          ELSE count_calls_in_expr(kids[i], targets, helpers,
                                                   max_helper_hops) + sum(i + 1)
                cnt == sum(1)
            IN  PathResult({IF cnt <= SatCap THEN cnt ELSE SatCap}, FALSE)
      [] kind = "CALL_EXPR" ->
            PathResult({call_count(s, targets, helpers, max_helper_hops)}, FALSE)
      [] kind = "IF_STMT" ->
            LET pr_then == IF Len(kids) > 1 THEN sub(kids[2]) ELSE zero
                pr_else == IF Len(kids) > 2 THEN sub(kids[3]) ELSE zero
            IN  PathResult(pr_then.counts \cup pr_else.counts,
                           pr_then.unknown \/ pr_else.unknown)
      [] kind = "SWITCH_STMT" ->
            LET RECURSIVE acc(_)
                acc(i) ==
                    IF i = 0 THEN PathResult({}, FALSE)
                    ELSE IF kids[i].kind \in {"CASE_STMT", "DEFAULT_STMT"}
                    THEN merge_pr(acc(i - 1),
                                  IF Len(kids[i].kids) >= 2 THEN sub(kids[i].kids[2])
                                  ELSE zero)
                    ELSE acc(i - 1)
                acc_pr == acc(Len(kids))
            IN  IF acc_pr.counts = {} THEN PathResult({0}, acc_pr.unknown) ELSE acc_pr
      [] kind = "CONDITIONAL_OPERATOR" ->
            LET pr_then == IF Len(kids) >= 2 THEN sub(kids[2]) ELSE zero
                pr_else == IF Len(kids) >= 3 THEN sub(kids[3]) ELSE zero
            IN  merge_pr(pr_then, pr_else)
      [] kind \in {"FOR_STMT", "WHILE_STMT", "DO_STMT"} ->
            LET body == loop_body(kids)
                \* max_helper_hops is not passed on: the default, 1, applies
                pr_body == analyze_stmt(body, targets, helpers, 1)
            IN  IF body = NoNode THEN PathResult({SatCap}, TRUE)
                ELSE IF \E x \in pr_body.counts : x >= 2 THEN PathResult({SatCap}, TRUE)
                ELSE PathResult(pr_body.counts \cup {0, 1}, pr_body.unknown)
      [] kind = "COMPOUND_STMT" ->
            LET RECURSIVE fold(_)
                fold(i) ==
                    IF i = 0 THEN PathResult({0}, FALSE)
                    ELSE LET before == fold(i - 1)
                             child == sub(kids[i])
                         IN  PathResult(
                                UNION {cap_union(before.counts, v) : v \in child.counts},
                                accumulate_unknown(before.unknown, child))
            IN  fold(Len(kids))
      [] OTHER ->
            LET RECURSIVE acc(_)
                acc(i) == IF i = 0 THEN PathResult({0}, FALSE)
                          ELSE merge_pr(acc(i - 1), sub(kids[i]))
            IN  acc(Len(kids))

-----------------------------------------------------------------------------
(* Atomic pairs and the early guard *)

\* _ATOMIC_PAIRS[""]: the tuples, and the frozensets.
AtomicTuples == {<<"open", "close">>, <<"fopen", "fclose">>, <<"socket", "close">>,
                 <<"malloc", "free">>, <<"calloc", "free">>}

AtomicSets == {{"pthread_mutex_lock", "pthread_mutex_unlock"},
               {"pthread_rwlock_rdlock", "pthread_rwlock_unlock"}}

\* is_atomic_pair without the table: any two names pass.
any_two_names(api_names) == Len(api_names) = 2

is_atomic_pair(api_names) ==
    /\ Len(api_names) = 2
    /\ LET a == api_names[1]
           b == api_names[2]
       IN  <<a, b>> \in AtomicTuples \/ <<b, a>> \in AtomicTuples \/ {a, b} \in AtomicSets

branch_has_immediate_return(node) ==
    /\ node # NoNode
    /\ \E i \in 1..Len(node.kids) :
          LET ch == node.kids[i]
              inner == NonDecl(ch.kids)
          IN  \/ ch.kind = "RETURN_STMT"
              \/ /\ ch.kind = "COMPOUND_STMT"
                 /\ Len(inner) > 0
                 /\ inner[1].kind = "RETURN_STMT"

has_early_guard_return(func, helpers) ==
    LET body == function_body_cursor(func)
        stmts == NonDecl(body.kids)
        \* the index of the first statement that is not a helper call
        skipped(k) == \A j \in 1..k : /\ stmts[j].kind = "CALL_EXPR"
                                      /\ is_helper_call(stmts[j], helpers, "helpers")
        i == CHOOSE k \in 1..(Len(stmts) + 1) :
                /\ skipped(k - 1)
                /\ (k = Len(stmts) + 1 \/ ~skipped(k))
    IN  /\ body # NoNode
        /\ Len(stmts) > 0
        /\ i <= Len(stmts)
        /\ stmts[i].kind = "IF_STMT"
        /\ LET kids == stmts[i].kids
               then_node == IF Len(kids) >= 2 THEN kids[2] ELSE NoNode
               else_node == IF Len(kids) >= 3 THEN kids[3] ELSE NoNode
           IN  \/ branch_has_immediate_return(then_node)
               \/ branch_has_immediate_return(else_node)

-----------------------------------------------------------------------------
(* Call evidence *)

NoEvidence == [apis |-> <<>>, hit_locs |-> <<>>, ignored_helpers |-> {},
               via_helper_hop |-> FALSE, local_depth_ge2 |-> FALSE]

\* What walk_calls does with one CALL_EXPR ch at location loc.
walk_one(ch, loc, targets, helpers, e) ==
    LET nm == callee_name(ch)
        mapped == resolve_syscall_indirection(ch)
        inner == inner_target_from_one_hop(ch, targets)
        hit(api) == [e EXCEPT !.apis = IF api = "" THEN @ ELSE Append(@, api),
                              !.hit_locs = Append(@, loc)]
    IN  IF is_helper_call(ch, helpers, "helpers")
        THEN [e EXCEPT !.ignored_helpers = @ \cup {IF nm = "" THEN "<anon>" ELSE nm}]
        ELSE IF nm \in targets THEN hit(nm)
        ELSE IF mapped \in targets THEN hit(mapped)
        ELSE IF call_hits_target_via_one_hop(ch, targets)
             THEN [hit(inner) EXCEPT !.via_helper_hop = TRUE]
        ELSE IF call_hits_target_via_n_hops(ch, targets, 2)
             \* via_hop_depth_ge2 is not declared nonlocal in walk_calls: the
             \* assignment binds a local of that call, kept here as local_depth_ge2
             THEN [hit(inner) EXCEPT !.via_helper_hop = TRUE, !.local_depth_ge2 = TRUE]
        ELSE e

RECURSIVE walk_calls(_, _, _, _, _)
walk_calls(n, path, targets, helpers, e) ==
    LET RECURSIVE go(_, _)
        go(i, acc) ==
            IF i > Len(n.kids) THEN acc
            ELSE LET ch == n.kids[i]
                     loc == Append(path, i)
                     a1 == IF ch.kind = "CALL_EXPR"
                           THEN walk_one(ch, loc, targets, helpers, acc) ELSE acc
                 IN  go(i + 1, walk_calls(ch, loc, targets, helpers, a1))
    IN  go(1, e)

is_target_hit(n, targets) ==
    /\ n.kind = "CALL_EXPR"
    /\ \/ callee_name(n) \in targets
       \/ resolve_syscall_indirection(n) \in targets
       \/ call_hits_target_via_one_hop(n, targets)
       \/ call_hits_target_via_n_hops(n, targets, 2)

\* collect_target_calls: the hits below the function body, in preorder, each
\* with its location.  (The function cursor and its parameters are no calls.)
RECURSIVE visit(_, _, _)
visit(n, path, targets) ==
    LET RECURSIVE go(_)
        go(i) == IF i > Len(n.kids) THEN <<>>
                 ELSE visit(n.kids[i], Append(path, i), targets) \o go(i + 1)
    IN  (IF is_target_hit(n, targets) THEN <<[call |-> n, loc |-> path]>> ELSE <<>>)
        \o go(1)

collect_target_calls(f, targets) ==
    IF function_body_cursor(f) = NoNode THEN <<>>
    ELSE visit(function_body_cursor(f), <<>>, targets)

resolve_target_name_for_call(call, targets) ==
    LET nm == callee_name(call)
        mapped == resolve_syscall_indirection(call)
        inner == inner_target_from_one_hop(call, targets)
    IN  IF nm \in targets THEN nm
        ELSE IF mapped \in targets THEN mapped
        ELSE IF /\ \/ call_hits_target_via_one_hop(call, targets)
                   \/ call_hits_target_via_n_hops(call, targets, 2)
                /\ inner \in targets
             THEN inner
        ELSE ""

-----------------------------------------------------------------------------
(* Intra-procedural provenance *)

\* The variables of the modelled functions; _var_key is the variable's name.
VarNames == {"fd", "r", "i", "g"}

\* TaintState: taint[v] is the list of reasons of v, empty when v is not a key.
NoTaint == [taint |-> [v \in VarNames |-> <<>>], ret_tainted |-> FALSE, ret_trace |-> <<>>]

mark(state, key, trace) ==
    IF key \in VarNames THEN [state EXCEPT !.taint[key] = @ \o trace] ELSE state

RECURSIVE taint_expr(_, _)
taint_expr(expr, state) ==
    LET clean == [t |-> FALSE, trace |-> <<>>]
        RECURSIVE first(_)
        first(i) == IF i > Len(expr.kids) THEN clean
                    ELSE LET r == taint_expr(expr.kids[i], state)
                         IN  IF r.t THEN r ELSE first(i + 1)
    IN  IF expr.kind = "DECL_REF_EXPR"
        THEN IF expr.name \in VarNames /\ state.taint[expr.name] # <<>>
             THEN [t |-> TRUE, trace |-> state.taint[expr.name]]
             ELSE clean
        ELSE IF expr.kind = "CALL_EXPR" THEN clean
        ELSE first(1)

RECURSIVE taint_stmt(_, _)
taint_stmt(s, state) ==
    LET kids == s.kids
        RECURSIVE each(_, _)
        each(i, st) == IF i > Len(kids) THEN st
                       ELSE each(i + 1, taint_stmt(kids[i], st))
        RECURSIVE inits(_, _)
        inits(i, st) ==
            IF i > Len(kids) THEN st
            ELSE LET r == taint_expr(kids[i], st)
                 IN  inits(i + 1, IF r.t THEN mark(st, s.name, r.trace) ELSE st)
        RECURSIVE rets(_, _)
        rets(i, st) ==
            IF i > Len(kids) THEN st
            ELSE LET r == taint_expr(kids[i], st)
                 IN  rets(i + 1, IF r.t
                                 THEN [st EXCEPT !.ret_tainted = TRUE,
                                                 !.ret_trace = @ \o r.trace]
                                 ELSE st)
    IN  CASE s.kind = "VAR_DECL" -> inits(1, state)
          [] s.kind = "BINARY_OPERATOR" ->
                IF Len(kids) = 2 /\ kids[1].kind = "DECL_REF_EXPR"
                THEN LET r == taint_expr(kids[2], state)
                     IN  IF r.t THEN mark(state, kids[1].name, r.trace) ELSE state
                ELSE state
          [] s.kind = "RETURN_STMT" -> rets(1, state)
          [] OTHER -> each(1, state)

extract_call_args(call) == IF call.kids = <<>> THEN <<>> ELSE Tail(call.kids)

\* "arg<i>:tainted [why]" or "arg<i>:clean".
trace_entry(i, r) == [arg |-> i, tainted |-> r.t, why |-> r.trace]

\* One trace entry per argument of every call, in order.
RECURSIVE arg_trace(_, _, _, _)
arg_trace(calls, state, c, a) ==
    IF c > Len(calls) THEN <<>>
    ELSE IF a > Len(extract_call_args(calls[c])) THEN arg_trace(calls, state, c + 1, 1)
    ELSE <<trace_entry(a - 1, taint_expr(extract_call_args(calls[c])[a], state))>>
         \o arg_trace(calls, state, c, a + 1)

RECURSIVE seed_params(_, _, _)
seed_params(params, i, st) ==
    IF i > Len(params) THEN st
    ELSE seed_params(params, i + 1, mark(st, params[i], <<[param |-> params[i]]>>))

\* A provenance result that takes one tainted argument for enough.
provenance_of_any(trace) ==
    [ok |-> \E k \in 1..Len(trace) : trace[k].tainted, trace |-> trace]

provenance_of(trace) ==
    [ok |-> \A k \in 1..Len(trace) : trace[k].tainted, trace |-> trace]

check_arguments_provenance(func, calls) ==
    IF function_body_cursor(func) = NoNode
    \* (False, ["no-body"]): the entry with arg = -1 stands for "no-body"
    THEN [ok |-> FALSE,
          trace |-> <<trace_entry(-1, [t |-> FALSE, trace |-> <<>>])>>]
    ELSE provenance_of(
             arg_trace(calls,
                       taint_stmt(function_body_cursor(func),
                                  seed_params(func.params, 1, NoTaint)),
                       1, 1))

-----------------------------------------------------------------------------
(* Wrapper decisions *)

\* str(sorted(counts)) for a set of saturated counts.
sorted_counts(c) ==
    CASE c = {} -> "[]"
      [] c = {0} -> "[0]"
      [] c = {1} -> "[1]"
      [] c = {2} -> "[2]"
      [] c = {0, 1} -> "[0, 1]"
      [] c = {0, 2} -> "[0, 2]"
      [] c = {1, 2} -> "[1, 2]"
      [] OTHER -> "[0, 1, 2]"

Max(S) == IF S = {} THEN 0 ELSE CHOOSE x \in S : \A y \in S : y <= x

\* The 11-tuple both analyzers return.  reason is the sequence of the parts
\* the code concatenates; ignored_helpers is the set the code returns sorted;
\* api_name is "" for None.
Verdict(keep, single, total, reason, locs, api, derived, trace, pair, via, ignored) ==
    [keep |-> keep, per_path_single |-> single, total_hits |-> total, reason |-> reason,
     hit_locs |-> locs, api_name |-> api, derived_ok |-> derived,
     derivation_trace |-> trace, pair_used |-> pair, via_helper_hop |-> via,
     ignored_helpers |-> ignored]

Rejected(reason) == Verdict(FALSE, FALSE, 0, reason, <<>>, "", FALSE, <<>>, FALSE, FALSE, {})

RECURSIVE calls_of(_, _)
calls_of(hits, i) == IF i > Len(hits) THEN <<>> ELSE <<hits[i].call>> \o calls_of(hits, i + 1)

Calls(hits) == calls_of(hits, 1)

\* The evidence walk_calls leaves in the enclosing variables of strict-plus.
strict_evidence(func) ==
    walk_calls(function_body_cursor(func), <<>>, target_names, HelperConfig, NoEvidence)

\* via_hop_depth_ge2 of analyze_wrapper_strict_plus after walk_calls(body):
\* walk_calls never assigns it (see walk_one), so it still is False.
via_hop_depth_ge2(e) == FALSE

\* A thin-alias check that rejects nothing.
no_thin_alias_rejection(e, thin_aliases, thin_policy) == ""

thin_alias_rejection(e, thin_aliases, thin_policy) ==
    LET pol == IF thin_policy = "" THEN "default" ELSE thin_policy
    IN  IF e.apis # <<>> /\ e.apis[1] \in thin_aliases
        THEN IF pol \in {"default", "direct-only"}
             THEN IF e.via_helper_hop THEN "reject: thin-alias-via-helper" ELSE ""
             ELSE IF pol = "allow-1-hop"
             THEN IF via_hop_depth_ge2(e) THEN "reject: thin-alias-hop-depth>=2" ELSE ""
             ELSE ""
        ELSE ""

\* The checks of strict-plus with the count of hits tested before the path
\* result.
strict_decision_hits_first(body, prb, guard, e, thin, prov) ==
    LET counts == prb.counts
        guard_ok == 0 \in counts /\ guard
        total_hits == Len(e.hit_locs)
        first_api == IF e.apis # <<>> THEN e.apis[1] ELSE ""
        pair_used == Max(counts) >= 2
    IN  IF body = NoNode THEN Rejected(<<"no-body">>)
        ELSE IF total_hits = 0
             THEN Verdict(FALSE, FALSE, 0, <<"no-calls">>, <<>>, "", FALSE, <<>>, FALSE,
                          e.via_helper_hop, e.ignored_helpers)
        ELSE IF prb.unknown THEN Rejected(<<"unknown-control-flow">>)
        ELSE IF 0 \in counts /\ ~guard_ok
             THEN Rejected(<<"path-counts=", sorted_counts(counts)>>)
        ELSE IF thin # "" \/ (pair_used /\ ~(total_hits = 2 /\ is_atomic_pair(e.apis)))
             THEN Verdict(FALSE, FALSE, total_hits,
                          IF thin # "" THEN <<thin>> ELSE <<"reject: multi-call-per-path">>,
                          e.hit_locs, first_api, FALSE, <<>>, FALSE,
                          e.via_helper_hop, e.ignored_helpers)
        ELSE Verdict(TRUE, TRUE, total_hits,
                     <<"ok">> \o (IF guard_ok THEN <<"+ok-guard">> ELSE <<>>)
                              \o (IF e.via_helper_hop THEN <<"+via-hop">> ELSE <<>>)
                              \o (IF pair_used THEN <<"+atomic-pair">> ELSE <<>>),
                     e.hit_locs, first_api, prov.ok, prov.trace, pair_used,
                     e.via_helper_hop, e.ignored_helpers)

\* Strict-plus with the provenance enforced: a function whose arguments are
\* not derived from its parameters is rejected.
strict_decision_provenance_enforced(body, prb, guard, e, thin, prov) ==
    LET counts == prb.counts
        guard_ok == 0 \in counts /\ guard
        total_hits == Len(e.hit_locs)
        first_api == IF e.apis # <<>> THEN e.apis[1] ELSE ""
        pair_used == Max(counts) >= 2
    IN  IF body = NoNode THEN Rejected(<<"no-body">>)
        ELSE IF prb.unknown THEN Rejected(<<"unknown-control-flow">>)
        ELSE IF 0 \in counts /\ ~guard_ok
             THEN Rejected(<<"path-counts=", sorted_counts(counts)>>)
        ELSE IF total_hits = 0
             THEN Verdict(FALSE, FALSE, 0, <<"no-calls">>, <<>>, "", FALSE, <<>>, FALSE,
                          e.via_helper_hop, e.ignored_helpers)
        ELSE IF thin # "" \/ (pair_used /\ ~(total_hits = 2 /\ is_atomic_pair(e.apis)))
             THEN Verdict(FALSE, FALSE, total_hits,
                          IF thin # "" THEN <<thin>> ELSE <<"reject: multi-call-per-path">>,
                          e.hit_locs, first_api, FALSE, <<>>, FALSE,
                          e.via_helper_hop, e.ignored_helpers)
        ELSE IF ~prov.ok
             THEN Verdict(FALSE, FALSE, total_hits, <<"reject: not-derived">>,
                          e.hit_locs, first_api, FALSE, prov.trace, FALSE,
                          e.via_helper_hop, e.ignored_helpers)
        ELSE Verdict(TRUE, TRUE, total_hits,
                     <<"ok">> \o (IF guard_ok THEN <<"+ok-guard">> ELSE <<>>)
                              \o (IF e.via_helper_hop THEN <<"+via-hop">> ELSE <<>>)
                              \o (IF pair_used THEN <<"+atomic-pair">> ELSE <<>>),
                     e.hit_locs, first_api, prov.ok, prov.trace, pair_used,
                     e.via_helper_hop, e.ignored_helpers)

\* The checks of analyze_wrapper_strict_plus in their order, given the body,
\* its PathResult, has_early_guard_return, the evidence of walk_calls, the
\* thin-alias rejection and the provenance of the arguments.
strict_decision(body, prb, guard, e, thin, prov) ==
    LET counts == prb.counts
        max_pos == Max(counts)
        guard_ok == 0 \in counts /\ guard
        total_hits == Len(e.hit_locs)
        first_api == IF e.apis # <<>> THEN e.apis[1] ELSE ""
        pair_used == max_pos >= 2
    IN  IF body = NoNode THEN Rejected(<<"no-body">>)
        ELSE IF prb.unknown THEN Rejected(<<"unknown-control-flow">>)
        ELSE IF 0 \in counts /\ ~guard_ok
             THEN Rejected(<<"path-counts=", sorted_counts(counts)>>)
        ELSE IF total_hits = 0
             THEN Verdict(FALSE, FALSE, 0, <<"no-calls">>, <<>>, "", FALSE, <<>>, FALSE,
                          e.via_helper_hop, e.ignored_helpers)
        ELSE IF thin # "" \/ (max_pos >= 2 /\ ~(total_hits = 2 /\ is_atomic_pair(e.apis)))
             THEN Verdict(FALSE, FALSE, total_hits,
                          IF thin # "" THEN <<thin>> ELSE <<"reject: multi-call-per-path">>,
                          e.hit_locs, first_api, FALSE, <<>>, FALSE,
                          e.via_helper_hop, e.ignored_helpers)
        ELSE Verdict(TRUE, TRUE, total_hits,
                     <<"ok">> \o (IF guard_ok THEN <<"+ok-guard">> ELSE <<>>)
                              \o (IF e.via_helper_hop THEN <<"+via-hop">> ELSE <<>>)
                              \o (IF pair_used THEN <<"+atomic-pair">> ELSE <<>>),
                     e.hit_locs, first_api, prov.ok, prov.trace, pair_used,
                     e.via_helper_hop, e.ignored_helpers)

strict_with_evidence(func, e, thin_aliases, thin_policy) ==
    strict_decision(function_body_cursor(func),
                    analyze_stmt(function_body_cursor(func), target_names, HelperConfig, 2),
                    has_early_guard_return(func, HelperConfig),
                    e,
                    thin_alias_rejection(e, thin_aliases, thin_policy),
                    check_arguments_provenance(
                        func, Calls(collect_target_calls(func, target_names))))

analyze_wrapper_strict_plus(func, thin_aliases, thin_policy) ==
    strict_with_evidence(func, strict_evidence(func), thin_aliases, thin_policy)

\* One collected hit with the target name it resolves to; dropped when none.
named_hit(h, api) == IF api = "" THEN <<>> ELSE <<[api |-> api, loc |-> h.loc]>>

RECURSIVE resolved(_, _)
resolved(hits, i) ==
    IF i > Len(hits) THEN <<>>
    ELSE named_hit(hits[i], resolve_target_name_for_call(hits[i].call, target_names))
         \o resolved(hits, i + 1)

\* The (name, loc) of the collected hits whose target name resolves.
resolved_hits(func) == resolved(collect_target_calls(func, target_names), 1)

RECURSIVE locs_of(_, _)
locs_of(hits, i) == IF i > Len(hits) THEN <<>> ELSE <<hits[i].loc>> \o locs_of(hits, i + 1)

\* The checks of analyze_wrapper_relaxed, given the body, its PathResult and
\* the resolved hits.
relaxed_decision(body, prb, hits) ==
    IF body = NoNode THEN Rejected(<<"no-body">>)
    ELSE IF ~\E c \in prb.counts : c > 0
         THEN Rejected(<<"path-counts=", sorted_counts(prb.counts)>>)
    ELSE IF Len(hits) = 0 THEN Rejected(<<"no-calls">>)
    ELSE Verdict(TRUE, prb.counts \subseteq {0, 1}, Len(hits), <<"ok">>,
                 locs_of(hits, 1), hits[1].api, TRUE, <<>>, FALSE, FALSE, {})

analyze_wrapper_relaxed(func) ==
    relaxed_decision(function_body_cursor(func),
                     analyze_stmt(function_body_cursor(func), target_names, HelperConfig, 2),
                     resolved_hits(func))

-----------------------------------------------------------------------------
(* The functions the analyzers are run on *)

\* Longest function body, in top-level statements.
MaxStmts == 2

TargetCall == CallStmt("close")

SyscallStmt == Call("syscall", <<SysSelector("close"), Use("fd")>>)

\* The top-level statements function bodies are built from.
Stmts ==
    {CallStmt(f) : f \in {"close", "open", "log", "dbg", "h1", "h2", "hr", "foo"}}
    \cup {SyscallStmt,
          Return(Lit), Return(TargetCall), Return(Paren(TargetCall)),
          DeclStmt("r", TargetCall),
          If(Return(Lit)), If(Compound(<<Return(Lit)>>)), If(TargetCall),
          IfElse(TargetCall, CallStmt("h2")),
          For(TargetCall), For(Compound(<<TargetCall>>)),
          While(Compound(<<TargetCall, CallStmt("open")>>)),
          Switch(Compound(<<Case(TargetCall)>>)), Switch(Case(TargetCall)),
          Ternary(TargetCall, CallStmt("open"))}

Bodies == UNION {[1..n -> Stmts] : n \in 0..MaxStmts}

\* int w(int fd) { ... }, and the declaration int w(int fd);
Functions == {Func("w", <<"fd">>, Compound(b)) : b \in Bodies}
             \cup {Func("w", <<"fd">>, NoNode)}

ThinAliasSets == {{}, {"close"}}

ThinPolicies == {"default", "direct-only", "allow-1-hop"}

\* max_helper_hops: the default of analyze_stmt, and what the analyzers pass.
HopLimits == {1, 2}

\* n and every cursor below it.
RECURSIVE Descendants(_)
Descendants(n) == {n} \cup UNION {Descendants(n.kids[i]) : i \in 1..Len(n.kids)}

-----------------------------------------------------------------------------
(* The command line: cwrappers <finder|fuzzy|pipeline> [args...] *)

\* One invocation: the subcommand (argv[0], "" when argv is empty), the option
\* names that follow it, the value of --out when it is given, the positional
\* input_csv of the fuzzy subcommand ("none" when absent, "file" or "nofile"
\* for what os.path.isfile says), and what the file system holds.
Invocation(cmd, flags, out, csv, cc_readable, catalog_ok) ==
    [cmd |-> cmd, flags |-> flags, out |-> out, csv |-> csv,
     cc_readable |-> cc_readable, catalog_ok |-> catalog_ok]

NoArgv == Invocation("", {}, "-", "none", TRUE, TRUE)

\* No return code yet: the process is still running.
NotExited == -1

\* run_finder took the call-graph-only early return.
CallgraphOnlyRun == -2

\* The options the finder's ArgumentParser declares (those the model uses).
FinderOptions ==
    {"--compile-commands", "--yaml", "--only-libc", "--only-syscalls", "--mode",
     "--output", "--out", "--callgraph-out", "--callgraph-only"}

\* parse_args of the finder: argparse ends the process with code 2 when
\* --compile-commands is missing or an argument is not recognized.
finder_parse_args(flags) ==
    IF "--compile-commands" \notin flags \/ flags \ FinderOptions # {}
    THEN 2
    ELSE NotExited

\* run_finder up to the first translation unit: the code it raises SystemExit
\* with, or NotExited when the wrapper detection goes on.
run_finder(a) ==
    LET provided_args == a.flags    \* _parse_args_provided: names in sys.argv[1:]
        callgraph_only == "--callgraph-only" \in a.flags
    IN  IF /\ callgraph_only
           /\ provided_args \cap {"--yaml", "--only-libc", "--only-syscalls"} # {}
        THEN 1
        ELSE IF /\ callgraph_only
                /\ provided_args \cap {"--yaml", "--mode", "--output", "--out",
                                       "--only-libc", "--only-syscalls"} # {}
        THEN 1
        ELSE IF ~a.cc_readable THEN 1
        ELSE IF callgraph_only THEN CallgraphOnlyRun
        ELSE IF "--yaml" \notin a.flags THEN 1
        ELSE IF ~a.catalog_ok THEN 1
        ELSE IF "--only-libc" \in a.flags /\ "--only-syscalls" \in a.flags THEN 1
        ELSE NotExited

\* main of the fuzzy CLI; csv_ok is whether process_csv returned.
fuzzy_main(a, csv_ok) ==
    IF a.csv = "none" \/ a.flags \ {"--yaml", "--out"} # {} THEN 2
    ELSE IF a.csv # "file" THEN 2
    ELSE IF csv_ok THEN 0
    ELSE 1

\* _pipeline up to the call of run_finder.
pipeline(a) ==
    LET fuzzy == "--fuzzy" \in a.flags
        finder_argv == a.flags \ {"--fuzzy"}
    IN  IF fuzzy /\ "--out" \in finder_argv /\ a.out = "-" THEN 2
        ELSE IF finder_parse_args(finder_argv) # NotExited
        THEN finder_parse_args(finder_argv)
        ELSE IF fuzzy /\ "--output" \in finder_argv THEN 2
        ELSE run_finder(a)

\* main up to the call of run_finder: the code it returns, or NotExited.
main(a, csv_ok) ==
    IF a.cmd = "--help" THEN 0
    ELSE IF a.cmd = "" THEN 2
    ELSE IF a.cmd = "finder"
    THEN \* main of the finder CLI: parse_args, then run_finder
         IF finder_parse_args(a.flags) # NotExited
         THEN finder_parse_args(a.flags)
         ELSE run_finder(a)
    ELSE IF a.cmd = "fuzzy" THEN fuzzy_main(a, csv_ok)
    ELSE IF a.cmd = "pipeline" THEN pipeline(a)
    ELSE 2

\* main after run_finder returned: 0 from the finder CLI; _pipeline goes on
\* with out_path (None when the rows went to standard output, which --fuzzy
\* excludes by naming a temporary file) and csv_ok, whether process_csv
\* returned.
main_returns(a, csv_ok) ==
    LET fuzzy == "--fuzzy" \in a.flags
        out_path_is_none == ~fuzzy /\ ("--out" \notin a.flags \/ a.out = "-")
    IN  IF a.cmd = "finder" THEN 0
        ELSE IF ~fuzzy THEN 0
        ELSE IF out_path_is_none THEN 2
        ELSE IF csv_ok THEN 0
        ELSE 1

\* The command lines the model runs; --out, where given, names a file unless
\* the entry says "-".
Invocations ==
    LET cc == "--compile-commands"
        ok(cmd, flags) == Invocation(cmd, flags, "f", "none", TRUE, TRUE)
    IN  { NoArgv,
          ok("--help", {}),
          ok("frobnicate", {}),
          ok("finder", {}),
          ok("finder", {cc, "--yaml"}),
          ok("finder", {cc, "--yaml", "--frobnicate"}),
          ok("finder", {cc}),
          ok("finder", {cc, "--yaml", "--only-libc", "--only-syscalls"}),
          ok("finder", {cc, "--callgraph-only", "--callgraph-out", "--yaml"}),
          ok("finder", {cc, "--callgraph-only", "--callgraph-out", "--mode"}),
          Invocation("finder", {cc, "--yaml"}, "f", "none", FALSE, TRUE),
          Invocation("finder", {cc, "--yaml"}, "f", "none", TRUE, FALSE),
          ok("pipeline", {cc, "--yaml", "--fuzzy"}),
          ok("pipeline", {"--yaml", "--fuzzy"}),
          ok("pipeline", {cc, "--yaml", "--fuzzy", "--output"}),
          Invocation("pipeline", {cc, "--yaml", "--fuzzy", "--out"}, "-", "none", TRUE, TRUE),
          ok("fuzzy", {}),
          Invocation("fuzzy", {"--yaml"}, "f", "file", TRUE, TRUE),
          Invocation("fuzzy", {}, "f", "nofile", TRUE, TRUE) }

\* Functions for the pass-through rules: parameter lists of every size up to
\* two (g is a global where it is no parameter), calls with direct and other
\* arguments, returns of every root kind.
PassParams == {<<>>, <<"fd">>, <<"fd", "g">>}

PassCalls ==
    {Call("open", <<a, b>>) : a, b \in {Use("fd"), Use("g"), Lit}}
    \cup {Call("close", <<a>>) : a \in {Use("fd"), Paren(Use("g")), Lit}}
    \cup {Call("getpid", <<>>)}

PassReturns(c) ==
    {Return(c), Return(Paren(c)), Return(Lit), Return(Ternary(c, Lit)),
     Return(Node("BINARY_OPERATOR", "+", <<c, Lit>>)),
     Return(Node("UNARY_OPERATOR", "-", <<c>>))}

PassBodies ==
    {<<c>> : c \in PassCalls}
    \cup {<<c, d>> : c, d \in {CallStmt("close"), Call("close", <<Paren(Use("g"))>>),
                               Call("open", <<Use("fd"), Lit>>), Call("getpid", <<>>)}}
    \cup {<<r>> : r \in UNION {PassReturns(c) : c \in PassCalls}}
    \cup {<<If(r), q>> : r, q \in PassReturns(CallStmt("close"))}
    \cup {<<c, Return(CallStmt("log"))>> : c \in PassCalls}

\* int w(...) { ... } and void w(...) { ... }
PassFunctions ==
    {[Func("w", ps, Compound(b)) EXCEPT !.result_type = t] :
        ps \in PassParams, b \in PassBodies, t \in {"int", "void"}}

\* Functions for the provenance rules, g being a global: declarations and
\* assignments that carry the parameter or not, in either order, before or
\* after the call whose argument they reach.
TaintStmts ==
    {DeclStmt("r", Use("fd")), DeclStmt("r", CallStmt("foo")),
     Assign("g", Use("fd")), Assign("g", Use("r")), Assign("r", Use("g")),
     If(Assign("g", Use("fd")))}

TaintCalls ==
    {Call("close", <<Use("r")>>), Call("close", <<Use("g")>>),
     Call("close", <<Node("BINARY_OPERATOR", "+", <<Use("r"), Lit>>)>>)}

TaintBodies ==
    {<<c>> : c \in TaintCalls}
    \cup {<<s, c>> : s \in TaintStmts, c \in TaintCalls}
    \cup {<<c, s>> : s \in TaintStmts, c \in TaintCalls}
    \cup {<<s, t, c>> : s, t \in TaintStmts, c \in TaintCalls}
    \cup {<<s, Call("open", <<Use("fd"), Lit>>), c>> : s \in TaintStmts, c \in TaintCalls}

TaintFunctions == {Func("w", <<"fd">>, Compound(b)) : b \in TaintBodies}

-----------------------------------------------------------------------------
(* The analyzers as a state machine: one function in, one result out *)

NoPasses == [api |-> "", arg_pass |-> <<"n/a">>, ret_pass |-> <<"n/a">>]

NoWalk == [defs |-> <<>>, call |-> "", max_hops |-> 0, stack |-> <<>>, seen |-> {},
           ret |-> FALSE]

NoVerdict == Rejected(<<"n/a">>)

NoPathResult == PathResult({}, FALSE)

NoTU == [src |-> "", args |-> <<>>, funcs |-> <<>>, at |-> 0]

DriverIdle ==
    /\ mode = "all"
    /\ todo = <<>>
    /\ tu = NoTU
    /\ parses = <<>>
    /\ rows = <<>>
    /\ seen_keys = {}
    /\ all_edges = <<>>
    /\ written = <<>>
    /\ sys_argv = NoArgv
    /\ exit_code = NotExited

driverVars ==
    <<mode, todo, tu, parses, rows, seen_keys, all_edges, written, sys_argv, exit_code>>

InitAnalyzer ==
    /\ pc = "input"
    /\ fn \in Functions \cup PassFunctions \cup TaintFunctions
    /\ cat = {}
    /\ policy = "default"
    /\ res = NoVerdict
    /\ stmt = NoNode
    /\ hops = 1
    /\ pr = NoPathResult
    /\ arg_ret_pass = NoPasses
    /\ walk = NoWalk
    /\ DriverIdle

StrictPlus ==
    /\ pc = "input"
    /\ \E thin \in ThinAliasSets, pol \in ThinPolicies :
          /\ cat' = thin
          /\ policy' = pol
          /\ res' = analyze_wrapper_strict_plus(fn, thin, pol)
    /\ pc' = "strict"
    /\ UNCHANGED <<fn, stmt, hops, pr, arg_ret_pass, walk, driverVars>>

Relaxed ==
    /\ pc = "input"
    /\ res' = analyze_wrapper_relaxed(fn)
    /\ pc' = "relaxed"
    /\ UNCHANGED <<fn, cat, policy, stmt, hops, pr, arg_ret_pass, walk, driverVars>>

AnalyzeStmt ==
    /\ pc = "input"
    /\ function_body_cursor(fn) # NoNode
    /\ \E s \in Descendants(function_body_cursor(fn)), h \in HopLimits :
          /\ stmt' = s
          /\ hops' = h
          /\ pr' = analyze_stmt(s, target_names, HelperConfig, h)
    /\ pc' = "counted"
    /\ UNCHANGED <<fn, cat, policy, res, arg_ret_pass, walk, driverVars>>

-----------------------------------------------------------------------------
(* Compile arguments *)

\* One token of an argument vector: flag is the option spelling the token
\* starts with ("" when the token does not start with "-"), val what follows
\* it, as a sequence of parts; a path is the sequence of its components, an
\* absolute one starting with "/".
Tok(flag, val) == [flag |-> flag, val |-> val]

Range(seq) == {seq[i] : i \in 1..Len(seq)}

\* _abspath: an absolute candidate is kept, a relative one joined to base_dir.
abspath(candidate, base_dir) ==
    IF candidate # <<>> /\ candidate[1] = "/" THEN candidate ELSE base_dir \o candidate

\* _include_already_present: "-I" followed by the path, or "-I<path>".
include_already_present(argv, path) ==
    /\ path # <<>>
    /\ \E i \in 1..Len(argv) :
          IF argv[i] = Tok("-I", <<>>)
          THEN i + 1 <= Len(argv) /\ argv[i + 1] = Tok("", path)
          ELSE argv[i] = Tok("-I", path)

\* The environment the sanitizer reads: WRAPFINDER_ADD_DEFAULTS, whether the
\* multiarch include directory exists, and the resource directory it finds
\* (<<>> when none).  A bare system, one with clang installed, and the latter
\* with the defaults asked for.
Envs ==
    {[add_defaults |-> FALSE, multiarch |-> FALSE, resource_dir |-> <<>>],
     [add_defaults |-> FALSE, multiarch |-> TRUE,
      resource_dir |-> <<"/", "usr", "lib", "clang", "20">>],
     [add_defaults |-> TRUE, multiarch |-> TRUE,
      resource_dir |-> <<"/", "usr", "lib", "clang", "20">>]}

\* The main loop of the sanitizer from token i on: the filtered tokens and
\* the saw_lang and saw_resource_dir flags.
RECURSIVE sanitize_loop(_, _, _, _)
sanitize_loop(tokens, i, entry_dir, acc) ==
    LET tok == tokens[i]
        word == tok.flag = ""
        exact == tok.val = <<>>
        last == IF tok.val = <<>> THEN "" ELSE tok.val[Len(tok.val)]
        has_value == i + 1 <= Len(tokens) /\ tokens[i + 1].flag = ""
        skip(k) == sanitize_loop(tokens, i + k, entry_dir, acc)
        keep(k, out) ==
            sanitize_loop(tokens, i + k, entry_dir,
                          [acc EXCEPT !.filtered = @ \o out,
                                      !.saw_lang = @ \/ tok = Tok("-x", <<>>),
                                      !.saw_resource_dir =
                                          @ \/ tok.flag \in {"-resource-dir", "-resource-dir="}])
    IN
    IF i > Len(tokens) THEN acc
    ELSE IF i = 1 /\ word /\ last \in {"clang", "clang-20", "clang-19", "clang-18",
                                       "clang-17", "clang-16", "gcc", "cc", "c99", "c11"}
         THEN skip(1)
    ELSE IF exact /\ tok.flag \in {"-c", "-E", "-S", "-pipe", "-static", "-shared",
                                   "-rdynamic", "-s", "-g", "-ggdb", "-gsplit-dwarf",
                                   "-save-temps"}
         THEN skip(1)
    \* object, library and source file names, by their suffix
    ELSE IF last \in {"a.o", "a.c", "b.c", "p.c", "q.c"} THEN skip(1)
    ELSE IF tok.flag \in {"-Wl,", "-Xlinker", "-l", "-L", "-fuse-ld", "-T", "-u", "-flto",
                          "-fwhole-program-vtables", "-fprofile", "-fcoverage",
                          "--coverage", "-fsanitize", "-fno-sanitize", "-fmodules",
                          "-fmodule-file=", "-fmodule-map-file=", "-m"}
         THEN skip(1)
    ELSE IF tok.flag = "-W" THEN skip(1)
    ELSE IF exact /\ tok.flag \in {"-I", "-isystem", "-iquote", "-idirafter", "-include",
                                   "-imacros", "-o", "-MF", "-MT", "-MQ", "-MJ", "-x",
                                   "-isysroot", "--sysroot", "-resource-dir", "-target"}
         THEN IF tok.flag \in {"-o", "-MF", "-MT", "-MQ", "-MJ"}
              THEN skip(IF has_value THEN 2 ELSE 1)
              ELSE IF ~has_value THEN skip(1)
              ELSE IF tok.flag \in {"-I", "-isystem", "-iquote", "-idirafter", "-include",
                                    "-imacros", "-isysroot", "--sysroot"}
                   THEN keep(2, <<tok, Tok("", abspath(tokens[i + 1].val, entry_dir))>>)
              ELSE keep(2, <<tok, tokens[i + 1]>>)
    ELSE IF tok.flag = "-std=" THEN keep(1, <<tok>>)
    ELSE IF tok.flag \in {"-I", "-isystem", "-iquote", "-idirafter"}
         THEN keep(1, <<Tok(tok.flag, <<>>), Tok("", abspath(tok.val, entry_dir))>>)
    ELSE IF tok.flag \in {"-isysroot=", "--sysroot=", "-resource-dir="}
         THEN keep(1, <<Tok(tok.flag, abspath(tok.val, entry_dir))>>)
    ELSE IF tok.flag = "-D" THEN keep(1, <<tok>>)
    ELSE IF exact /\ tok.flag \in {"-pthread", "-ansi", "-fsigned-char", "-pedantic"}
         THEN keep(1, <<tok>>)
    ELSE IF tok.flag = "-O" THEN keep(1, <<tok>>)
    ELSE skip(1)

\* _sanitize_clang_args_for_libclang: the loop, then the arguments it adds.
\* src_dir is the directory of src_path, lang the language its suffix names.
sanitize_clang_args_for_libclang(raw_args, src_dir, lang, entry_dir, env) ==
    LET IncludeFlags == {Tok(f, <<>>) : f \in {"-I", "-isystem", "-iquote", "-idirafter"}}
        usr_include == <<"/", "usr", "include">>
        multiarch == <<"/", "usr", "include", "x86_64-linux-gnu">>
        has_sys_include(argv, path) ==
            \E k \in 1..Len(argv) :
                \/ /\ argv[k] \in IncludeFlags
                   /\ k + 1 <= Len(argv)
                   /\ argv[k + 1].flag = ""
                   /\ argv[k + 1].val = path
                \/ argv[k] = Tok("-I", path)
        has_any_project_includes(argv) ==
            \E j \in 1..Len(argv) :
                \/ /\ argv[j] \in IncludeFlags
                   /\ j + 1 <= Len(argv)
                   /\ argv[j + 1].flag = ""
                   /\ argv[j + 1].val \notin {usr_include, multiarch}
                \/ /\ argv[j].flag = "-I"
                   /\ argv[j].val \notin {<<>>, usr_include, multiarch}
        include(path) == <<Tok("-I", <<>>), Tok("", path)>>
        with_working_directory(f) ==
            IF \E k \in 1..Len(f) : f[k].flag \in {"-working-directory", "-working-directory="}
            THEN f ELSE Append(f, Tok("-working-directory=", entry_dir))
        with_src_dir(f) ==
            IF src_dir # entry_dir /\ ~include_already_present(f, src_dir)
            THEN f \o include(src_dir) ELSE f
        with_usr_include(f) ==
            IF ~has_sys_include(f, usr_include) THEN f \o include(usr_include) ELSE f
        with_multiarch(f) ==
            IF env.multiarch /\ ~has_sys_include(f, multiarch)
            THEN f \o include(multiarch) ELSE f
        with_resource_dir(f, saw_resource_dir) ==
            IF ~saw_resource_dir /\ env.resource_dir # <<>>
            THEN Append(f, Tok("-resource-dir=", env.resource_dir)) ELSE f
        with_default(f, pth) ==
            IF ~include_already_present(f, pth) THEN f \o include(pth) ELSE f
        with_defaults(f) ==
            IF env.add_defaults /\ ~has_any_project_includes(f)
            THEN with_default(with_default(f, entry_dir), src_dir) ELSE f
        with_lang(f, saw_lang) ==
            IF saw_lang THEN f ELSE <<Tok("-x", <<>>), Tok("", <<lang>>)>> \o f
        finish(l) ==
            with_lang(
                with_defaults(
                    with_resource_dir(
                        with_multiarch(
                            with_usr_include(with_src_dir(with_working_directory(l.filtered)))),
                        l.saw_resource_dir)),
                l.saw_lang)
    IN  finish(sanitize_loop(raw_args, 1, entry_dir,
                             [filtered |-> <<>>, saw_lang |-> FALSE,
                              saw_resource_dir |-> FALSE]))

-----------------------------------------------------------------------------
(* The project the driver runs on *)

\* a.c:  #include "util.h"
\*       int via1(int fd) { h1(fd); return 0; }
\*       int wclose(int fd) { close(fd); return 0; }
Via1 == FuncAt("via1", "a.c", 3, ExternUSR("via1"), <<"fd">>,
               Compound(<<CallStmt("h1"), Return(Lit)>>))

WClose == FuncAt("wclose", "a.c", 7, ExternUSR("wclose"), <<"fd">>,
                 Compound(<<CallStmt("close"), Return(Lit)>>))

\* /usr/include/sys.h:  static int sysw(int fd) { close(fd); return 0; }
SysW == FuncAt("sysw", "/usr/include/sys.h", 9, StaticUSR("sys.h", "sysw"), <<"fd">>,
               Compound(<<CallStmt("close"), Return(Lit)>>))

\* b.c:  #include <sys.h>
\*       #include "util.h"
\*       void probe(int fd) { mystery(fd); wclose(fd); }
\*       (neither mystery nor wclose, which a.c defines, is declared)
Probe == [FuncAt("probe", "b.c", 5, ExternUSR("probe"), <<"fd">>,
                Compound(<<CallStmt("mystery"), CallStmt("wclose")>>))
          EXCEPT !.result_type = "void"]

\* p.c:  #include "pure.h"
\*       int main(int fd) { g(fd); return 0; }
MainP == FuncAt("main", "p.c", 4, ExternUSR("main"), <<"fd">>,
                Compound(<<CallStmt("g"), Return(Lit)>>))

\* q.c:  #include "pure.h"
\*       int k(int fd) { return 0; }
\*       int main(int fd) { k(fd); return 0; }
MainQ == FuncAt("main", "q.c", 4, ExternUSR("main"), <<"fd">>,
                Compound(<<CallStmt("k"), Return(Lit)>>))

\* One entry of compile_commands.json: the source file, its directory, the
\* entry's directory and raw arguments, with the function definitions
\* walk_preorder meets in the parsed translation unit, those of its headers
\* first.  args is the entry's value in file_to_args, env the environment the
\* sanitizer ran in.
TU(src, src_dir, raw, funcs) ==
    [src |-> src, src_dir |-> src_dir, entry_dir |-> <<"/", "p">>, raw |-> raw,
     funcs |-> funcs, args |-> <<>>,
     env |-> [add_defaults |-> FALSE, multiarch |-> FALSE, resource_dir |-> <<>>]]

\* /p:      cc -c -Iinc -DX -o a.o a.c
\*          cc -I /usr/include -MF b.d -Wall -c sub/b.c
\*          clang -x c -std=c11 -working-directory=/p p.c
\*          gcc -o -c q.c -fPIC -I
TranslationUnits ==
    {TU("a.c", <<"/", "p">>,
        <<Tok("", <<"cc">>), Tok("-c", <<>>), Tok("-I", <<"inc">>), Tok("-D", <<"X">>),
          Tok("-o", <<>>), Tok("", <<"a.o">>), Tok("", <<"a.c">>)>>,
        <<H1, Via1, WClose>>),
     TU("b.c", <<"/", "p", "sub">>,
        <<Tok("", <<"cc">>), Tok("-I", <<>>), Tok("", <<"/", "usr", "include">>),
          Tok("-MF", <<>>), Tok("", <<"b.d">>), Tok("-W", <<"all">>), Tok("-c", <<>>),
          Tok("", <<"sub", "b.c">>)>>,
        <<SysW, H1, H2, Probe>>),
     TU("p.c", <<"/", "p">>,
        <<Tok("", <<"clang">>), Tok("-x", <<>>), Tok("", <<"c">>), Tok("-std=", <<"c11">>),
          Tok("-working-directory=", <<"/", "p">>), Tok("", <<"p.c">>)>>,
        <<G, MainP>>),
     TU("q.c", <<"/", "p">>,
        <<Tok("", <<"gcc">>), Tok("-o", <<>>), Tok("-c", <<>>), Tok("", <<"q.c">>),
          Tok("-f", <<"PIC">>), Tok("-I", <<>>)>>,
        <<G, K, MainQ>>)}

\* normalize_args_from_entry: the entry with its sanitized arguments.
normalize_args_from_entry(entry, env) ==
    [entry EXCEPT !.env = env,
                  !.args = sanitize_clang_args_for_libclang(
                               entry.raw, entry.src_dir, "c", entry.entry_dir, env)]

RECURSIVE build_file_to_args_map(_, _, _)
build_file_to_args_map(entries, i, env) ==
    IF i > Len(entries) THEN <<>>
    ELSE <<normalize_args_from_entry(entries[i], env)>>
         \o build_file_to_args_map(entries, i + 1, env)

\* Longest file_to_args, in translation units.
MaxTUs == 2

\* The values file_to_args can have: distinct sources, in any order.
Projects ==
    {p \in UNION {[1..n -> TranslationUnits] : n \in 1..MaxTUs} :
        \A i, j \in 1..Len(p) : i # j => p[i].src # p[j].src}

Modes == {"relaxed", "accurate", "all"}

-----------------------------------------------------------------------------
(* run_finder: parsing *)

OutputFlags == {"-o", "-MF", "-MT", "-MQ", "-MJ"}

\* A retry that passes no arguments at all.
retry_without_arguments(clang_args, i) == <<>>

\* The cleaned argument list of the retry.
RECURSIVE cleaned(_, _)
cleaned(clang_args, i) ==
    IF i > Len(clang_args) THEN <<>>
    ELSE IF /\ clang_args[i].val = <<>>
            /\ clang_args[i].flag \in OutputFlags
            /\ i + 1 <= Len(clang_args)
            /\ clang_args[i + 1].flag = ""
         THEN cleaned(clang_args, i + 2)
         ELSE <<clang_args[i]>> \o cleaned(clang_args, i + 1)

-----------------------------------------------------------------------------
(* Argument and return pass-through *)

\* _strip_noop, with the location of the cursor it ends at.
RECURSIVE strip_noop(_, _)
strip_noop(n, path) ==
    IF n.kind \in {"PAREN_EXPR", "CSTYLE_CAST_EXPR", "UNEXPOSED_EXPR"} /\ n.kids # <<>>
    THEN strip_noop(n.kids[Len(n.kids)], Append(path, Len(n.kids)))
    ELSE [node |-> n, loc |-> path]

\* The cursors the member-chain walk meets below n, in the order of its stack.
RECURSIVE chain_met(_)
chain_met(n) ==
    LET RECURSIVE below(_)
        below(i) == IF i = 0 THEN <<>> ELSE chain_met(n.kids[i]) \o below(i - 1)
    IN  n.kids \o below(Len(n.kids))

\* The parameter a member chain starts from, "" when there is none.
chain_base(met, params) ==
    IF \E i \in 1..Len(met) :
           met[i].kind \in {"ARRAY_SUBSCRIPT_EXPR", "BINARY_OPERATOR", "CALL_EXPR",
                            "CONDITIONAL_OPERATOR", "UNARY_OPERATOR"}
    THEN ""
    ELSE LET at == {i \in 1..Len(met) : /\ met[i].kind = "DECL_REF_EXPR"
                                        /\ met[i].name \in Range(params)}
         IN  IF at = {} THEN "" ELSE met[CHOOSE i \in at : \A j \in at : j <= i].name

\* The key of the parameter expr passes on unchanged, "" for None.
is_direct_param_ref(expr, params) ==
    LET e == strip_noop(expr, <<>>).node
    IN
    IF e.kind = "DECL_REF_EXPR" THEN (IF e.name \in Range(params) THEN e.name ELSE "")
    ELSE IF e.kind = "UNARY_OPERATOR" /\ Len(e.kids) = 1
              /\ strip_noop(e.kids[1], <<>>).node.kind = "MEMBER_REF_EXPR"
         THEN chain_base(chain_met(strip_noop(e.kids[1], <<>>).node), params)
    ELSE ""

RECURSIVE direct_keys(_, _, _)
direct_keys(args, params, i) ==
    IF i > Len(args) THEN <<>>
    ELSE <<is_direct_param_ref(args[i], params)>> \o direct_keys(args, params, i + 1)

\* str(n) for a natural number, digit by digit.
RECURSIVE decimal(_)
decimal(n) ==
    LET digit(d) == <<"0", "1", "2", "3", "4", "5", "6", "7", "8", "9">>[d + 1]
    IN  IF n < 10 THEN <<digit(n)>> ELSE decimal(n \div 10) \o <<digit(n % 10)>>

RECURSIVE arg_pass_from(_, _, _, _)
RECURSIVE arg_pass_after(_, _, _, _, _)
arg_pass_from(calls, params, i, used) ==
    IF params = <<>> \/ i > Len(calls)
    THEN (IF used # {} THEN <<"yes - ">> \o decimal(Cardinality(used)) ELSE <<"no">>)
    ELSE arg_pass_after(calls, params, i, used,
                        direct_keys(extract_call_args(calls[i].call), params, 1))

arg_pass_after(calls, params, i, used, keys) ==
    IF /\ \A k \in 1..Len(keys) : keys[k] # ""
       /\ Cardinality(Range(keys)) = Len(keys)
       /\ Cardinality(Range(keys)) = Cardinality(Range(params))
    THEN <<"yes - all">>
    ELSE arg_pass_from(calls, params, i + 1, used \cup (Range(keys) \ {""}))

\* _return_directly_call, from child i of the return statement on.
RECURSIVE return_directly_call(_, _, _, _)
RECURSIVE return_child_decides(_, _, _, _, _)
return_directly_call(ret_node, path, call_locs, i) ==
    IF i > Len(ret_node.kids) THEN FALSE
    ELSE return_child_decides(ret_node, path, call_locs, i,
                              strip_noop(ret_node.kids[i], Append(path, i)))

return_child_decides(ret_node, path, call_locs, i, e) ==
    IF e.node.kind \in {"BINARY_OPERATOR", "UNARY_OPERATOR", "CONDITIONAL_OPERATOR"}
    THEN FALSE
    ELSE IF e.node.kind = "CALL_EXPR" /\ e.loc \in call_locs THEN TRUE
    ELSE return_directly_call(ret_node, path, call_locs, i + 1)

\* total_returns and direct_returns of the cursors at n and below.
RECURSIVE count_returns(_, _, _)
count_returns(n, path, call_locs) ==
    LET plus(a, b) == [total |-> a.total + b.total, direct |-> a.direct + b.direct]
        RECURSIVE below(_)
        below(i) ==
            IF i > Len(n.kids) THEN [total |-> 0, direct |-> 0]
            ELSE plus(count_returns(n.kids[i], Append(path, i), call_locs), below(i + 1))
        here == n.kind = "RETURN_STMT"
    IN  plus([total |-> IF here THEN 1 ELSE 0,
              direct |-> IF here /\ return_directly_call(n, path, call_locs, 1)
                         THEN 1 ELSE 0],
             below(1))

\* ret_pass that reports only "yes - all" or "no".
ret_pass_all_or_no(result_type, returns) ==
    IF result_type = "void" \/ returns.total = 0 THEN <<"no">>
    ELSE IF returns.direct = returns.total THEN <<"yes - all">>
    ELSE <<"no">>

ret_pass_of(result_type, returns) ==
    IF result_type = "void" \/ returns.total = 0 THEN <<"no">>
    ELSE IF returns.direct = returns.total THEN <<"yes - all">>
    ELSE IF returns.direct > 0 THEN <<"yes - ">> \o decimal(returns.direct)
    ELSE <<"no">>

\* (arg_pass, ret_pass) for the calls of fn that resolve to the row's API.
compute_arg_ret_pass_multi(f, matching_calls) ==
    IF matching_calls = <<>> THEN [arg_pass |-> <<"no">>, ret_pass |-> <<"no">>]
    ELSE [arg_pass |-> arg_pass_from(matching_calls, f.params, 1, {}),
          ret_pass |-> IF function_body_cursor(f) = NoNode
                       THEN ret_pass_of(f.result_type, [total |-> 0, direct |-> 0])
                       ELSE ret_pass_of(f.result_type,
                                        count_returns(function_body_cursor(f), <<>>,
                                                      Range(locs_of(matching_calls, 1))))]

-----------------------------------------------------------------------------
(* run_finder: one function definition *)

\* Only the system header lies outside the project roots.
is_in_project(path) == path # "/usr/include/sys.h"

function_key(f) ==
    IF f.usr # <<>> THEN f.usr ELSE <<f.name, "@", f.file, f.line>>

func_loc(f) == <<f.file, f.line>>

\* catalog.name_to_category: both targets are listed under system_calls.
name_to_category == [n \in target_names |-> "system_calls"]

category_of(name) ==
    IF name \in DOMAIN name_to_category THEN name_to_category[name] ELSE "unknown"

\* Mode all: the strict-plus result with the driver's own hits, or the
\* "N/A" result of a function without hits.
all_mode_verdict(hits, strict) ==
    IF Len(hits) > 0
    THEN [strict EXCEPT !.total_hits = Len(hits),
                        !.hit_locs = locs_of(hits, 1),
                        !.api_name = IF @ = "" THEN hits[1].api ELSE @]
    ELSE Verdict(TRUE, TRUE, 0, <<"N/A">>, <<>>, "", FALSE, <<>>, FALSE, FALSE, {})

mode_verdict(mode_eff, cursor, thin_aliases, thin_policy) ==
    CASE mode_eff = "relaxed" -> analyze_wrapper_relaxed(cursor)
      [] mode_eff = "accurate" ->
            analyze_wrapper_strict_plus(cursor, thin_aliases, thin_policy)
      [] OTHER ->
            all_mode_verdict(resolved_hits(cursor),
                             analyze_wrapper_strict_plus(cursor, thin_aliases, thin_policy))

\* The filter applied in every mode.
filtered_in_every_mode(mode_eff, v) ==
    ~v.keep \/ v.total_hits = 0 \/ v.api_name = "" \/ v.api_name \notin target_names

\* A filter that lets every function through.
never_filtered(mode_eff, v) == FALSE

\* The filter of the modes relaxed and accurate.
filtered_out(mode_eff, v) ==
    /\ mode_eff \in {"relaxed", "accurate"}
    /\ \/ ~v.keep
       \/ v.total_hits = 0
       \/ v.api_name = ""
       \/ v.api_name \notin target_names

dedup_key(cursor, api_name) ==
    <<cursor.name, func_loc(cursor), IF api_name = "" THEN "other" ELSE api_name>>

\* A dedup test that never finds the key.
never_seen(key, seen) == FALSE

already_seen(key, seen) == key \in seen

\* The collected calls of the function that resolve to api_name.
RECURSIVE matching_calls_of(_, _, _)
matching_calls_of(hits, api_name, i) ==
    IF i > Len(hits) THEN <<>>
    ELSE (IF resolve_target_name_for_call(hits[i].call, target_names) = api_name
          THEN <<hits[i]>> ELSE <<>>)
         \o matching_calls_of(hits, api_name, i + 1)

\* arg_pass and ret_pass of the row of cursor.
pass_through(cursor, mode_eff, api_name) ==
    IF mode_eff = "all" /\ api_name = ""
    THEN [arg_pass |-> <<"N/A">>, ret_pass |-> <<"N/A">>]
    ELSE compute_arg_ret_pass_multi(
             cursor,
             matching_calls_of(collect_target_calls(cursor, target_names), api_name, 1))

for_api(api, p) == [api |-> api, arg_pass |-> p.arg_pass, ret_pass |-> p.ret_pass]

\* compute_arg_ret_pass_multi for fn and the calls that resolve to one API of
\* the catalog, as run_finder calls it for a row.
PassThrough ==
    /\ pc = "input"
    /\ \E api \in target_names :
          arg_ret_pass' = for_api(api, pass_through(fn, "accurate", api))
    /\ pc' = "passed"
    /\ UNCHANGED <<fn, cat, policy, res, stmt, hops, pr, walk, driverVars>>

NextAnalyzer == StrictPlus \/ Relaxed \/ AnalyzeStmt \/ PassThrough

SpecAnalyzer == InitAnalyzer /\ [][NextAnalyzer]_vars

Row(cursor, mode_eff, v, thin_aliases, passes) ==
    LET api == v.api_name
        na == mode_eff = "all" /\ api = ""
    IN  [file |-> cursor.file,
         function |-> cursor.name,
         function_key |-> function_key(cursor),
         api_called |-> IF na THEN "other" ELSE api,
         category |-> IF api # "" /\ api \in target_names THEN category_of(api)
                      ELSE IF na THEN "N/A" ELSE category_of(api),
         total_target_calls |-> v.total_hits,
         hit_locs |-> v.hit_locs,
         per_path_single |-> v.per_path_single,
         derived_from_params |-> v.derived_ok,
         derivation_trace |-> v.derivation_trace,
         reason |-> IF na THEN <<"N/A">>
                    ELSE IF v.reason # <<"n/a">> THEN v.reason
                    ELSE IF v.keep THEN <<"ok">> ELSE <<"-">>,
         function_loc |-> func_loc(cursor),
         pair_used |-> v.pair_used,
         via_helper_hop |-> v.via_helper_hop,
         ignored_helpers |-> v.ignored_helpers,
         family |-> IF api # "" /\ api \in thin_aliases THEN "thin_alias" ELSE "-",
         is_thin_alias |-> api # "" /\ api \in thin_aliases,
         arg_pass |-> passes.arg_pass,
         ret_pass |-> passes.ret_pass,
         fan_in |-> 0,
         fan_out |-> 0,
         callees |-> {}]

\* The rows one function definition adds, given its verdict: none or one.
emitted(cursor, mode_eff, v, thin_aliases, seen) ==
    IF ~is_in_project(cursor.file) THEN <<>>
    ELSE IF filtered_out(mode_eff, v) THEN <<>>
    ELSE IF already_seen(dedup_key(cursor, v.api_name), seen) THEN <<>>
    ELSE <<Row(cursor, mode_eff, v, thin_aliases,
                pass_through(cursor, mode_eff, v.api_name))>>

\* The dedup keys of the rows just added.
keys_of(new_rows) ==
    {<<new_rows[i].function, new_rows[i].function_loc, new_rows[i].api_called>> :
        i \in 1..Len(new_rows)}

-----------------------------------------------------------------------------
(* Call graph *)

DetailedEdge(caller_key, callee_key, caller, callee, loc) ==
    [caller_key |-> caller_key, callee_key |-> callee_key, caller |-> caller,
     callee |-> callee, loc |-> loc]

\* file:line:column of a call: the function's place and the path to the call.
callsite_loc(cursor, path) == <<cursor.file, cursor.line>> \o path

callee_key_of(callee_def, callee_name_) ==
    IF callee_def # NoDef THEN function_key(callee_def)
    ELSE <<callee_name_, "@<unknown>">>

edge_of(cursor, ch, path) ==
    DetailedEdge(function_key(cursor),
                 callee_key_of(callee_definition(ch), callee_name(ch)),
                 cursor.name, callee_name(ch), callsite_loc(cursor, path))

\* The edges below n in the order of the stack walk: the calls among the
\* children of n, then the subtrees, last child first.
RECURSIVE edges_below(_, _, _)
edges_below(cursor, n, path) ==
    LET RECURSIVE here(_)
        here(i) == IF i > Len(n.kids) THEN <<>>
                   ELSE (IF n.kids[i].kind = "CALL_EXPR"
                         THEN <<edge_of(cursor, n.kids[i], Append(path, i))>>
                         ELSE <<>>) \o here(i + 1)
        RECURSIVE below(_)
        below(i) == IF i = 0 THEN <<>>
                    ELSE edges_below(cursor, n.kids[i], Append(path, i)) \o below(i - 1)
    IN  here(1) \o below(Len(n.kids))

RECURSIVE edges_of_functions(_, _)
edges_of_functions(funcs, i) ==
    IF i > Len(funcs) THEN <<>>
    ELSE (IF function_body_cursor(funcs[i]) = NoNode THEN <<>>
          ELSE edges_below(funcs[i], function_body_cursor(funcs[i]), <<>>))
         \o edges_of_functions(funcs, i + 1)

\* Per-TU dedup: the edges from i on whose call site is not in seen.
RECURSIVE unseen_callsites(_, _, _)
unseen_callsites(es, i, seen) ==
    IF i > Len(es) THEN <<>>
    ELSE IF es[i].loc \in seen THEN unseen_callsites(es, i + 1, seen)
    ELSE <<es[i]>> \o unseen_callsites(es, i + 1, seen \cup {es[i].loc})

collect_callgraph_for_tu_detailed(funcs) ==
    unseen_callsites(edges_of_functions(funcs, 1), 1, {})

edge_key(e) == <<e.loc, e.caller_key, e.callee_key>>

\* Global dedup: the edges from i on whose key is not in seen_edge_keys.
RECURSIVE dedup_edges(_, _, _)
dedup_edges(edges, i, seen_edge_keys) ==
    IF i > Len(edges) THEN <<>>
    ELSE IF edge_key(edges[i]) \in seen_edge_keys
         THEN dedup_edges(edges, i + 1, seen_edge_keys)
    ELSE <<edges[i]>>
         \o dedup_edges(edges, i + 1, seen_edge_keys \cup {edge_key(edges[i])})

\* The edges write_callgraph writes to callgraph_edges.csv.
write_callgraph(edges) == dedup_edges(edges, 1, {})

-----------------------------------------------------------------------------
(* run_finder: aggregation *)

is_unknown_key(k) == Len(k) > 0 /\ k[Len(k)] = "@<unknown>"

callers_by_callee(edges, key) ==
    {e.caller_key : e \in {x \in Range(edges) : x.callee_key = key}}

callees_by_caller(edges, key) ==
    {e.callee_key : e \in {x \in Range(edges) : x.caller_key = key}}

callee_names_by_caller_key(edges, key) ==
    {e.callee : e \in {x \in Range(edges) : x.caller_key = key /\ x.callee # ""}}

unres_callers_by_callee_name(edges, name) ==
    {e.caller : e \in {x \in Range(edges) :
                          /\ is_unknown_key(x.callee_key)
                          /\ x.callee = name /\ x.caller # ""}}

unres_callees_by_caller_name(edges, name) ==
    {e.callee : e \in {x \in Range(edges) :
                          /\ is_unknown_key(x.caller_key)
                          /\ x.caller = name /\ x.callee # ""}}

name_frequency(rs, name) == Cardinality({i \in 1..Len(rs) : rs[i].function = name})

\* fan_in, fan_out and callees of row r, given the maps of the edges.
with_fan(r, fin, fout, names, once, unres_in, unres_out) ==
    [r EXCEPT !.fan_in = IF fin = 0 /\ once THEN Cardinality(unres_in) ELSE fin,
              !.fan_out = IF fout = 0 /\ once THEN Cardinality(unres_out) ELSE fout,
              !.callees = IF names = {} /\ once THEN unres_out ELSE names]

aggregated_row(r, rs, edges) ==
    with_fan(r,
             Cardinality(callers_by_callee(edges, r.function_key)),
             Cardinality(callees_by_caller(edges, r.function_key)),
             callee_names_by_caller_key(edges, r.function_key),
             name_frequency(rs, r.function) = 1,
             unres_callers_by_callee_name(edges, r.function),
             unres_callees_by_caller_name(edges, r.function))

\* The rows as they were appended: no edge reaches them.
not_aggregated(rs, i, edges) == rs

RECURSIVE aggregated(_, _, _)
aggregated(rs, i, edges) ==
    IF i > Len(rs) THEN <<>>
    ELSE <<aggregated_row(rs[i], rs, edges)>> \o aggregated(rs, i + 1, edges)

-----------------------------------------------------------------------------
(* run_finder as a state machine *)

AnalyzerIdle ==
    /\ fn = NoDef
    /\ res = NoVerdict
    /\ stmt = NoNode
    /\ hops = 1
    /\ pr = NoPathResult
    /\ arg_ret_pass = NoPasses
    /\ walk = NoWalk

analyzerVars == <<fn, res, stmt, hops, pr, arg_ret_pass, walk>>

cliVars == <<sys_argv, exit_code>>

Init ==
    /\ pc = "main"
    /\ sys_argv \in Invocations
    /\ exit_code = NotExited
    /\ mode \in Modes
    /\ policy \in ThinPolicies
    /\ cat \in ThinAliasSets
    /\ todo \in Projects
    /\ tu = NoTU
    /\ parses = <<>>
    /\ rows = <<>>
    /\ seen_keys = {}
    /\ all_edges = <<>>
    /\ written = <<>>
    /\ AnalyzerIdle

\* The entry point up to the first translation unit: it ends with a code, or
\* run_finder goes on to read compile_commands.json.
Main ==
    /\ pc = "main"
    /\ \E csv_ok \in BOOLEAN :
          /\ main(sys_argv, csv_ok) # CallgraphOnlyRun
          /\ exit_code' = main(sys_argv, csv_ok)
          /\ pc' = IF main(sys_argv, csv_ok) = NotExited THEN "entries" ELSE "exited"
    /\ UNCHANGED <<mode, policy, cat, todo, tu, parses, rows, seen_keys, all_edges,
                   written, sys_argv, analyzerVars>>

\* run_finder returned: the entry point returns its code.
Exit ==
    /\ pc = "done"
    /\ \E csv_ok \in BOOLEAN : exit_code' = main_returns(sys_argv, csv_ok)
    /\ pc' = "exited"
    /\ UNCHANGED <<mode, policy, cat, todo, tu, parses, rows, seen_keys, all_edges,
                   written, sys_argv, analyzerVars>>

\* One call of index.parse: the source, the arguments and whether it returned.
parse(src, args, ok) == [src |-> src, args |-> args, ok |-> ok]

\* The entries of compile_commands.json become file_to_args.
BuildFileToArgs ==
    /\ pc = "entries"
    /\ \E env \in Envs : todo' = build_file_to_args_map(todo, 1, env)
    /\ pc' = "next_tu"
    /\ UNCHANGED <<mode, policy, cat, tu, parses, rows, seen_keys, all_edges, written,
                   analyzerVars, cliVars>>

\* index.parse succeeds with the arguments of the compilation database.
ParseTU ==
    /\ pc = "next_tu"
    /\ todo # <<>>
    /\ tu' = [src |-> Head(todo).src, args |-> Head(todo).args,
              funcs |-> Head(todo).funcs, at |-> 1]
    /\ parses' = Append(parses, parse(Head(todo).src, Head(todo).args, TRUE))
    /\ todo' = Tail(todo)
    /\ pc' = "functions"
    /\ UNCHANGED <<mode, policy, cat, rows, seen_keys, all_edges, written, analyzerVars, cliVars>>

\* index.parse raises, and succeeds with the cleaned arguments.
RetryParse ==
    /\ pc = "next_tu"
    /\ todo # <<>>
    /\ tu' = [src |-> Head(todo).src, args |-> cleaned(Head(todo).args, 1),
              funcs |-> Head(todo).funcs, at |-> 1]
    /\ parses' = parses \o <<parse(Head(todo).src, Head(todo).args, FALSE),
                              parse(Head(todo).src, cleaned(Head(todo).args, 1), TRUE)>>
    /\ todo' = Tail(todo)
    /\ pc' = "functions"
    /\ UNCHANGED <<mode, policy, cat, rows, seen_keys, all_edges, written, analyzerVars, cliVars>>

\* index.parse raises twice: the file is skipped, its edges are not collected.
SkipTU ==
    /\ pc = "next_tu"
    /\ todo # <<>>
    /\ parses' = parses \o <<parse(Head(todo).src, Head(todo).args, FALSE),
                              parse(Head(todo).src, cleaned(Head(todo).args, 1), FALSE)>>
    /\ todo' = Tail(todo)
    /\ UNCHANGED <<pc, tu, mode, policy, cat, rows, seen_keys, all_edges, written,
                   analyzerVars, cliVars>>

\* One function definition of the translation unit: analysis by mode, the
\* filter, the dedup and the new row.
AnalyzeFunction ==
    /\ pc = "functions"
    /\ tu.at <= Len(tu.funcs)
    /\ \E new_rows \in {emitted(tu.funcs[tu.at], mode,
                                mode_verdict(mode, tu.funcs[tu.at], cat, policy),
                                cat, seen_keys)} :
          /\ rows' = rows \o new_rows
          /\ seen_keys' = seen_keys \cup keys_of(new_rows)
    /\ tu' = [tu EXCEPT !.at = @ + 1]
    /\ UNCHANGED <<pc, mode, policy, cat, todo, parses, all_edges, written, analyzerVars, cliVars>>

\* After the last function definition: the edges of the translation unit.
CollectEdges ==
    /\ pc = "functions"
    /\ tu.at > Len(tu.funcs)
    /\ all_edges' = all_edges \o collect_callgraph_for_tu_detailed(tu.funcs)
    /\ pc' = "next_tu"
    /\ UNCHANGED <<mode, policy, cat, todo, tu, parses, rows, seen_keys, written,
                   analyzerVars, cliVars>>

\* After the last translation unit: fan-in, fan-out and callees of every row.
Aggregate ==
    /\ pc = "next_tu"
    /\ todo = <<>>
    /\ rows' = aggregated(rows, 1, all_edges)
    /\ pc' = "aggregated"
    /\ UNCHANGED <<mode, policy, cat, todo, tu, parses, seen_keys, all_edges, written,
                   analyzerVars, cliVars>>

\* write_callgraph, when --callgraph-out is given, and the end of the run.
WriteCallgraph ==
    /\ pc = "aggregated"
    /\ \E callgraph_out \in BOOLEAN :
          written' = IF callgraph_out THEN write_callgraph(all_edges) ELSE <<>>
    /\ pc' = "done"
    /\ UNCHANGED <<mode, policy, cat, todo, tu, parses, rows, seen_keys, all_edges,
                   analyzerVars, cliVars>>

Next ==
    \/ Main
    \/ BuildFileToArgs
    \/ ParseTU
    \/ RetryParse
    \/ SkipTU
    \/ AnalyzeFunction
    \/ CollectEdges
    \/ Aggregate
    \/ WriteCallgraph
    \/ Exit

Spec == Init /\ [][Next]_vars

-----------------------------------------------------------------------------
(* Properties of the analyzers, checked under SpecAnalyzer *)

\* The top-level statements of the function under analysis.
body_stmts == IF function_body_cursor(fn) = NoNode THEN <<>>
              ELSE function_body_cursor(fn).kids

\* s is a CALL_EXPR whose callee is a target of the catalog.
is_direct_target_call(s) == s.kind = "CALL_EXPR" /\ callee_name(s) \in target_names

\* C1: at every level of the recursion of analyze_stmt (any statement kind,
\* either hop limit) the counts of the returned PathResult are a non-empty
\* subset of {0, 1, 2}.
C1_CountsSaturated ==
    pc = "counted" => (pr.counts # {} /\ pr.counts \subseteq {0, 1, 2})

\* A compound statement whose children sum to more than 2 (a loop over two
\* target calls, then a target call) was summarised, and the sum was capped.
C1_Witness ==
    /\ pc = "counted"
    /\ stmt.kind = "COMPOUND_STMT"
    /\ Len(stmt.kids) = 2
    /\ stmt.kids[1].kind = "WHILE_STMT"
    /\ stmt.kids[2] = TargetCall
    /\ pr.counts = {2}

\* C2: strict-plus accepts a body made of one return statement whose
\* expression is a direct call to a target, with that target as api_name,
\* per_path_single = true and via_helper_hop = false.
C2_ReturnOfTargetAccepted ==
    (/\ pc = "strict"
     /\ Len(body_stmts) = 1
     /\ body_stmts[1].kind = "RETURN_STMT"
     /\ Len(body_stmts[1].kids) = 1
     /\ is_direct_target_call(body_stmts[1].kids[1]))
    => (/\ res.keep
        /\ res.api_name = callee_name(body_stmts[1].kids[1])
        /\ res.per_path_single
        /\ ~res.via_helper_hop)

\* C3: strict-plus accepts `if (fd<0) return -1; return close(fd);` (a bare
\* return as the then-branch of the first statement, then the return of a
\* target call), and the reason contains ok-guard.
C3_BareGuardAccepted ==
    (/\ pc = "strict"
     /\ Len(body_stmts) = 2
     /\ body_stmts[1] = If(Return(Lit))
     /\ body_stmts[2] = Return(TargetCall))
    => (/\ res.keep
        /\ \E k \in 1..Len(res.reason) : res.reason[k] = "+ok-guard")

\* C4: for a for-loop whose body is a single target call, followed by
\* `return 0;`, strict-plus rejects with reason "reject: multi-call-per-path"
\* and relaxed accepts with per_path_single = false.
C4_LoopOverTargetCall ==
    (/\ Len(body_stmts) = 2
     /\ body_stmts[1] = For(TargetCall)
     /\ body_stmts[2] = Return(Lit))
    => (/\ pc = "strict" =>
              (~res.keep /\ res.reason = <<"reject: multi-call-per-path">>)
        /\ pc = "relaxed" => (res.keep /\ ~res.per_path_single))

\* The callee names of the calls below n that match helpers.benign.
RECURSIVE benign_callees(_)
benign_callees(n) ==
    UNION {benign_callees(n.kids[i]) \cup
           (IF /\ n.kids[i].kind = "CALL_EXPR"
               /\ is_helper_call(n.kids[i], HelperConfig, "benign")
            THEN {callee_name(n.kids[i])} ELSE {}) : i \in 1..Len(n.kids)}

\* C5: in strict-plus every call of the body whose callee matches
\* helpers.benign contributes 0 to the path counts, and an accepted result
\* lists its name in ignored_helpers.
C5_BenignIgnoredAndRecorded ==
    /\ (pc = "counted" /\ stmt.kind = "CALL_EXPR"
        /\ is_helper_call(stmt, HelperConfig, "benign")) => pr.counts = {0}
    /\ (pc = "strict" /\ res.keep) =>
           benign_callees(function_body_cursor(fn)) \subseteq res.ignored_helpers

\* C7: under allow-1-hop, when the first collected API is a thin alias and
\* a call of the body reaches a target only through a helper chain of depth 2
\* (the one-hop test fails, the two-hop test succeeds), a strict-plus run
\* that gets as far as the thin-alias check rejects with reason
\* "reject: thin-alias-hop-depth>=2".
C7_DepthTwoRejected ==
    (/\ pc = "strict"
     /\ policy = "allow-1-hop"
     /\ res.total_hits > 0
     /\ strict_evidence(fn).apis # <<>>
     /\ strict_evidence(fn).apis[1] \in cat
     /\ strict_evidence(fn).local_depth_ge2)
    => (~res.keep /\ res.reason = <<"reject: thin-alias-hop-depth>=2">>)

\* The names form a pair of the closed atomic-pair table.
in_pair_table(names) ==
    /\ Len(names) = 2
    /\ \/ <<names[1], names[2]>> \in AtomicTuples
       \/ <<names[2], names[1]>> \in AtomicTuples
       \/ {names[1], names[2]} \in AtomicSets

\* The maximum path count of the body of the function under analysis.
body_max_count ==
    Max(analyze_stmt(function_body_cursor(fn), target_names, HelperConfig, 2).counts)

\* C8: an accepted strict-plus result with pair_used has exactly two hits
\* whose API names form a pair of the atomic-pair table; an accepted result
\* whose maximum path count is 2 has pair_used; and a rejection at the
\* multi-call check carries the reason "reject: multi-call-per-path".
C8_AtomicPair ==
    pc = "strict" =>
        /\ (res.keep /\ res.pair_used) =>
               (res.total_hits = 2 /\ in_pair_table(strict_evidence(fn).apis))
        /\ (res.keep /\ body_max_count = 2) => res.pair_used
        /\ (/\ ~res.keep
            /\ res.total_hits > 0
            /\ body_max_count = 2
            /\ thin_alias_rejection(strict_evidence(fn), cat, policy) = "")
           => res.reason = <<"reject: multi-call-per-path">>

\* `open(fd); close(fd);` was accepted as an atomic pair.
C8_Witness ==
    /\ pc = "strict"
    /\ res.keep
    /\ res.pair_used
    /\ res.total_hits = 2
    /\ res.reason = <<"ok", "+atomic-pair">>

\* C11: one resolution by _call_hits_target_via_n_hops started with
\* max_hops = N enters callee bodies at levels 1..N only, and enters no callee
\* twice, also when the helpers call each other in a cycle.
C11_HopBound ==
    pc = "counted" =>
        \A c \in Descendants(stmt) :
            c.kind = "CALL_EXPR" =>
                LET t == n_hops(c, target_names, hops, {}, <<>>).entered
                IN  /\ \A i \in 1..Len(t) : (hops - t[i].max_hops) + 1 \in 1..hops
                    /\ \A i, j \in 1..Len(t) : t[i].callee = t[j].callee => i = j

\* hr(fd), where hr calls itself, was resolved with two hops: the body of hr
\* was entered once, and the walk inside h2 stopped at the second level.
C11_Witness ==
    /\ pc = "counted"
    /\ hops = 2
    /\ stmt = CallStmt("hr")
    /\ n_hops(stmt, target_names, hops, {}, <<>>).entered
           = <<[callee |-> "hr", max_hops |-> 2]>>
    /\ n_hops(CallStmt("h2"), target_names, 1, {}, <<>>).entered
           = <<[callee |-> "h2", max_hops |-> 1]>>

\* C12: analyze_stmt on a compound statement returns unknown = true if and
\* only if analyze_stmt on at least one of its direct children does.
C12_UnknownIffChild ==
    (pc = "counted" /\ stmt.kind = "COMPOUND_STMT") =>
        (pr.unknown <=>
            \E i \in 1..Len(stmt.kids) :
                analyze_stmt(stmt.kids[i], target_names, HelperConfig, hops).unknown)

\* `for (...) close(fd); close(fd);` was analyzed: the loop is unknown, the
\* call after it is not, and the compound statement is unknown.
C12_Witness ==
    /\ pc = "counted"
    /\ stmt = Compound(<<For(TargetCall), TargetCall>>)
    /\ pr.unknown
    /\ analyze_stmt(stmt.kids[1], target_names, HelperConfig, hops).unknown
    /\ ~analyze_stmt(stmt.kids[2], target_names, HelperConfig, hops).unknown

\* C13: relaxed mode restores the recall of strict mode: whenever
\* analyze_wrapper_strict_plus keeps a function, analyze_wrapper_relaxed on the
\* same function and catalog keeps it too.
C13_RelaxedKeepsWhatStrictKeeps ==
    (pc = "strict" /\ res.keep) => analyze_wrapper_relaxed(fn).keep

-----------------------------------------------------------------------------
(* Properties of the driver, checked under Spec *)

\* Row i names a thin alias and was reached through a helper.
thin_alias_via_helper(i) == rows[i].api_called \in cat /\ rows[i].via_helper_hop

C9_NoDuplicateRowsOrEdges ==
    /\ \A i, j \in 1..Len(rows) :
          i # j => <<rows[i].function, rows[i].function_loc, rows[i].api_called>>
                   # <<rows[j].function, rows[j].function_loc, rows[j].api_called>>
    /\ \A i, j \in 1..Len(written) :
          i # j => edge_key(written[i]) # edge_key(written[j])

\* Two translation units that include util.h were processed: h1 and its call
\* of close were seen twice, and h1 has one row and the call one written edge.
C9_Witness ==
    /\ pc = "done"
    /\ Len(written) > 0
    /\ Len(written) < Len(all_edges)
    /\ Cardinality({i \in 1..Len(rows) : rows[i].function = "h1"}) = 1
    /\ Cardinality({i \in 1..Len(written) : written[i].caller = "h1"}) = 1

RECURSIVE SumFanIn(_, _)
SumFanIn(rs, i) == IF i > Len(rs) THEN 0 ELSE rs[i].fan_in + SumFanIn(rs, i + 1)

RECURSIVE SumFanOut(_, _)
SumFanOut(rs, i) == IF i > Len(rs) THEN 0 ELSE rs[i].fan_out + SumFanOut(rs, i + 1)

\* Both ends of every collected edge are the function key of some row.
edges_resolve_to_rows ==
    \A k \in 1..Len(all_edges) :
        /\ \E i \in 1..Len(rows) : rows[i].function_key = all_edges[k].caller_key
        /\ \E i \in 1..Len(rows) : rows[i].function_key = all_edges[k].callee_key

\* C10: when both ends of every collected edge resolve to the function key of
\* some output row, the sum of fan_out over all rows equals the sum of fan_in
\* over all rows.
C10_FanSumsAgree ==
    (pc = "done" /\ edges_resolve_to_rows)
    => SumFanOut(rows, 1) = SumFanIn(rows, 1)

\* C14: in mode all, every in-project function definition yields a row unless
\* its dedup key was already seen.  Without a resolvable target call the row
\* has api_called "other", category and reason "N/A", arg_pass and ret_pass
\* "N/A"; with target calls it carries the verdict fields of strict-plus, also
\* when strict-plus rejected the function.
C14_AllModeRows ==
    [][(/\ mode = "all"
        /\ pc = "functions"
        /\ tu.at <= Len(tu.funcs)
        /\ tu'.at = tu.at + 1
        /\ is_in_project(tu.funcs[tu.at].file))
       => LET f == tu.funcs[tu.at]
              hits == resolved_hits(f)
              strict == analyze_wrapper_strict_plus(f, cat, policy)
              api == IF hits = <<>> THEN "other"
                     ELSE IF strict.api_name # "" THEN strict.api_name ELSE hits[1].api
              r == rows'[Len(rows')]
          IN  IF <<f.name, func_loc(f), api>> \in seen_keys THEN rows' = rows
              ELSE /\ Len(rows') = Len(rows) + 1
                   /\ SubSeq(rows', 1, Len(rows)) = rows
                   /\ r.function = f.name
                   /\ r.function_loc = func_loc(f)
                   /\ r.api_called = api
                   /\ hits = <<>> =>
                         /\ r.category = "N/A"
                         /\ r.reason = <<"N/A">>
                         /\ r.arg_pass = <<"N/A">>
                         /\ r.ret_pass = <<"N/A">>
                   /\ hits # <<>> =>
                         /\ r.reason = strict.reason
                         /\ r.per_path_single = strict.per_path_single
                         /\ r.derived_from_params = strict.derived_ok
                         /\ r.derivation_trace = strict.derivation_trace
                         /\ r.pair_used = strict.pair_used
                         /\ r.via_helper_hop = strict.via_helper_hop
                         /\ r.ignored_helpers = strict.ignored_helpers]_vars

\* Mode all on b.c: probe, which calls no target, has its "other" row, and
\* h2, which strict-plus rejected, has its row with the reason of the rejection.
C14_Witness ==
    /\ mode = "all"
    /\ \E i, j \in 1..Len(rows) :
          /\ rows[i].function = "probe"
          /\ rows[i].api_called = "other"
          /\ rows[i].reason = <<"N/A">>
          /\ rows[i].arg_pass = <<"N/A">>
          /\ rows[j].function = "h2"
          /\ rows[j].api_called = "close"
          /\ rows[j].reason = <<"reject: thin-alias-via-helper">>

\* C15: for each translation unit the first parse uses the sanitized argument
\* vector; a second parse, with the -o/-MF/-MT/-MQ/-MJ pairs stripped, is
\* attempted only after the first failed; after a second failure the
\* translation unit contributes no rows and no edges, the rows and edges
\* accumulated before it are kept, and the loop goes on with the next one.
C15_ParseRetrySkip ==
    /\ [](\A k \in 1..Len(parses) :
             (\A j \in 1..Len(parses) : parses[j].src = parses[k].src => ~parses[j].ok)
             => /\ \A i \in 1..Len(rows) : rows[i].file # parses[k].src
                /\ \A i \in 1..Len(all_edges) : all_edges[i].loc[1] # parses[k].src)
    /\ [][parses' # parses =>
            LET t == Head(todo)
                new == SubSeq(parses', Len(parses) + 1, Len(parses'))
                flags == {i \in 1..Len(t.args) :
                            /\ t.args[i] \in {Tok(f, <<>>) :
                                                 f \in {"-o", "-MF", "-MT", "-MQ", "-MJ"}}
                            /\ i < Len(t.args)
                            /\ t.args[i + 1].flag = ""}
                RECURSIVE stripped(_)
                stripped(i) ==
                    IF i > Len(t.args) THEN <<>>
                    ELSE IF i \in flags \/ (i - 1) \in flags THEN stripped(i + 1)
                    ELSE <<t.args[i]>> \o stripped(i + 1)
                last == new[Len(new)]
            IN  /\ SubSeq(parses', 1, Len(parses)) = parses
                /\ Len(new) \in {1, 2}
                /\ new[1].src = t.src
                /\ new[1].args = t.args
                /\ new[1].ok => Len(new) = 1
                /\ Len(new) = 2 =>
                      /\ ~new[1].ok
                      /\ new[2].src = t.src
                      /\ new[2].args = stripped(1)
                /\ todo' = Tail(todo)
                /\ last.ok =>
                      /\ pc' = "functions"
                      /\ tu'.src = t.src
                      /\ tu'.args = last.args
                /\ ~last.ok =>
                      /\ Len(new) = 2
                      /\ pc' = "next_tu"
                      /\ rows' = rows
                      /\ seen_keys' = seen_keys
                      /\ all_edges' = all_edges]_vars

\* a.c failed to parse twice and b.c, after it, was parsed at the first
\* attempt: the run ended with rows and edges of b.c and none of a.c.
C15_Witness ==
    /\ pc = "done"
    /\ Len(parses) = 3
    /\ parses[1].src = "a.c" /\ ~parses[1].ok
    /\ parses[2].src = "a.c" /\ ~parses[2].ok
    /\ parses[3].src = "b.c" /\ parses[3].ok
    /\ \E i \in 1..Len(rows) : rows[i].file = "b.c"
    /\ \E i \in 1..Len(all_edges) : all_edges[i].loc[1] = "b.c"
    /\ \A i \in 1..Len(rows) : rows[i].file # "a.c"

is_usage_error(a) ==
    \/ a.cmd \notin {"--help", "finder", "fuzzy", "pipeline"}
    \/ /\ a.cmd \in {"finder", "pipeline"}
       /\ \/ "--compile-commands" \notin a.flags
          \/ "--yaml" \notin a.flags /\ "--callgraph-only" \notin a.flags
          \/ /\ "--callgraph-only" \in a.flags
             /\ a.flags \cap {"--yaml", "--mode", "--output", "--out",
                              "--only-libc", "--only-syscalls"} # {}
          \/ {"--only-libc", "--only-syscalls"} \subseteq a.flags
    \/ a.cmd = "pipeline" /\ "--fuzzy" \in a.flags /\ "--out" \in a.flags /\ a.out = "-"
    \/ a.cmd = "pipeline" /\ "--fuzzy" \in a.flags /\ "--output" \in a.flags
    \/ a.cmd = "fuzzy" /\ a.csv = "none"

\* C17: the entry point ends with exit code 2 on every usage error (no or
\* unknown subcommand, a missing required flag, flags that cannot be combined),
\* and no usage error ends with code 1.
C17_UsageErrorsExitTwo ==
    (pc = "exited" /\ is_usage_error(sys_argv)) => exit_code = 2

\* C18: aggregation runs only after the last translation unit; for every row
\* whose function key occurs in an edge, fan_in is the number of distinct
\* caller keys and fan_out the number of distinct callee keys of that key over
\* the edges of all translation units.
C18_FanCountsByKey ==
    pc \in {"aggregated", "done", "exited"} =>
        \A i \in 1..Len(rows) :
            LET key == rows[i].function_key
                es == {all_edges[j] : j \in 1..Len(all_edges)}
            IN  (\E e \in es : key \in {e.caller_key, e.callee_key})
                => /\ rows[i].fan_in
                        = Cardinality({e.caller_key : e \in {x \in es : x.callee_key = key}})
                   /\ rows[i].fan_out
                        = Cardinality({e.callee_key : e \in {x \in es : x.caller_key = key}})

\* C18 (amended): the fan fields of the rows change only in the aggregation
\* step, which runs once no translation unit is left, and the edge list does
\* not change in or after it; from then on, for every row whose function key
\* occurs in an edge, fan_in is the number of distinct caller keys of the
\* edges of all translation units that target the key and fan_out the number
\* of distinct callee keys of the edges that leave it, except that a count of
\* 0 for a row whose function name no other row has is replaced by the number
\* of distinct caller (callee) names of the edges whose callee (caller) key is
\* unknown and whose callee (caller) name is the row's function name.
C18_FanAfterLastTU ==
    /\ [](pc \in {"aggregated", "done", "exited"} =>
            \A i \in 1..Len(rows) :
                LET r == rows[i]
                    es == {all_edges[j] : j \in 1..Len(all_edges)}
                    once == \A k \in 1..Len(rows) : rows[k].function = r.function => k = i
                    unknown(k) == k[Len(k)] = "@<unknown>"
                    fin == Cardinality({e.caller_key :
                                           e \in {x \in es : x.callee_key = r.function_key}})
                    fout == Cardinality({e.callee_key :
                                            e \in {x \in es : x.caller_key = r.function_key}})
                    salvaged_in ==
                        Cardinality({e.caller : e \in {x \in es : /\ unknown(x.callee_key)
                                                                  /\ x.callee = r.function}})
                    salvaged_out ==
                        Cardinality({e.callee : e \in {x \in es : /\ unknown(x.caller_key)
                                                                  /\ x.caller = r.function}})
                IN  (\E e \in es : r.function_key \in {e.caller_key, e.callee_key})
                    => /\ r.fan_in = IF fin = 0 /\ once THEN salvaged_in ELSE fin
                       /\ r.fan_out = IF fout = 0 /\ once THEN salvaged_out ELSE fout)
    /\ [](pc \notin {"aggregated", "done", "exited"} =>
            \A i \in 1..Len(rows) : rows[i].fan_in = 0 /\ rows[i].fan_out = 0)
    /\ [][(pc # "aggregated" /\ pc' = "aggregated")
             => (todo = <<>> /\ all_edges' = all_edges)]_vars
    /\ [][(pc \in {"aggregated", "done", "exited"})
             => (all_edges' = all_edges /\ rows' = rows)]_vars

\* A row of h1, appended while a.c was processed, counts h2 of b.c, parsed
\* later, among its callers; the row of wclose has no caller by key and takes
\* probe, whose call did not resolve, from the edges with an unknown key.
C18_Witness ==
    /\ pc = "done"
    /\ \E i \in 1..Len(rows), j \in 1..Len(all_edges) :
          /\ rows[i].function = "h1"
          /\ rows[i].fan_in = 2
          /\ all_edges[j].callee_key = rows[i].function_key
          /\ all_edges[j].caller = "h2"
          /\ \E k \in 1..Len(parses) :
                /\ parses[k].src = "b.c"
                /\ parses[k].ok
                /\ \E m \in 1..(k - 1) : parses[m].src = "a.c" /\ parses[m].ok
    /\ \E i \in 1..Len(rows) :
          /\ rows[i].function = "wclose"
          /\ rows[i].fan_in = 1
          /\ rows[i].fan_out = 1

\* C19: for a return statement analyze_stmt returns the singleton {min(n, 2)},
\* n being the number of target call sites in the returned expression under
\* the counting rule, the returned expression itself included when it is a
\* call.
C19_ReturnCountsItsExpression ==
    (pc = "counted" /\ stmt.kind = "RETURN_STMT") =>
        LET RECURSIVE sites(_)
            sites(e) ==
                LET RECURSIVE below(_)
                    below(i) == IF i > Len(e.kids) THEN 0
                                ELSE sites(e.kids[i]) + below(i + 1)
                IN  (IF e.kind = "CALL_EXPR"
                     THEN call_count(e, target_names, HelperConfig, hops)
                     ELSE 0) + below(1)
            RECURSIVE total(_)
            total(i) == IF i > Len(stmt.kids) THEN 0
                        ELSE sites(stmt.kids[i]) + total(i + 1)
        IN  pr.counts = {IF total(1) <= 2 THEN total(1) ELSE 2}

\* C20: has_early_guard_return is true if and only if, after a prefix of
\* top-level call statements that match the helper set, the first remaining
\* non-declaration top-level statement is an if-statement whose then- or
\* else-branch is a bare return statement, or a compound statement whose first
\* non-declaration statement is a return.
C20_EarlyGuardIffImmediateReturn ==
    pc = "strict" =>
        LET rest == SelectSeq(body_stmts, LAMBDA c : c.kind # "DECL_STMT")
            helper(c) == c.kind = "CALL_EXPR" /\ any_match(HelperConfig, c.name, "helpers")
            RECURSIVE first_after_prefix(_)
            first_after_prefix(i) ==
                IF i > Len(rest) THEN 0
                ELSE IF helper(rest[i]) THEN first_after_prefix(i + 1)
                ELSE i
            at == first_after_prefix(1)
            immediate(b) ==
                \/ b.kind = "RETURN_STMT"
                \/ /\ b.kind = "COMPOUND_STMT"
                   /\ \E k \in 1..Len(b.kids) :
                         /\ b.kids[k].kind = "RETURN_STMT"
                         /\ \A j \in 1..(k - 1) : b.kids[j].kind = "DECL_STMT"
            guard ==
                /\ at > 0
                /\ rest[at].kind = "IF_STMT"
                /\ \E k \in 2..Len(rest[at].kids) : k <= 3 /\ immediate(rest[at].kids[k])
        IN  has_early_guard_return(fn, HelperConfig) <=> guard

\* C21: for a for/while/do loop whose body, analyzed with the targets, helpers
\* and max_hops of the loop, gives B, analyze_stmt returns counts {2} with
\* unknown = true exactly when some count of B is 2, and otherwise B's counts
\* with 0 and 1 added and B's unknown flag, whether the body is a compound
\* statement or a single statement.
C21_LoopFromBodyResult ==
    (pc = "counted" /\ stmt.kind \in {"FOR_STMT", "WHILE_STMT", "DO_STMT"}) =>
        LET body == IF stmt.kind = "DO_STMT" THEN stmt.kids[1]
                    ELSE stmt.kids[Len(stmt.kids)]
            B == analyze_stmt(body, target_names, HelperConfig, hops)
        IN  pr = IF 2 \in B.counts
                 THEN PathResult({2}, TRUE)
                 ELSE PathResult(B.counts \cup {0, 1}, B.unknown)

\* C22: for a statement of a kind other than return, call, if, switch,
\* ternary, loop and compound that has at least one child, the counts
\* analyze_stmt returns are the union of the counts of its children and
\* nothing else.
C22_OtherKindsUnionOfChildren ==
    (/\ pc = "counted"
     /\ stmt.kind \notin {"RETURN_STMT", "CALL_EXPR", "IF_STMT", "SWITCH_STMT",
                          "CONDITIONAL_OPERATOR", "FOR_STMT", "WHILE_STMT", "DO_STMT",
                          "COMPOUND_STMT"}
     /\ Len(stmt.kids) >= 1)
    => pr.counts = UNION {analyze_stmt(stmt.kids[i], target_names, HelperConfig, hops).counts :
                             i \in 1..Len(stmt.kids)}

\* C23: for a compound statement with children c1..cn the counts analyze_stmt
\* returns are exactly the values min(k1 + ... + kn, 2), each ki taken from
\* the counts of ci; {0} when the compound is empty.
C23_CompoundSumsOfChildren ==
    (pc = "counted" /\ stmt.kind = "COMPOUND_STMT") =>
        LET n == Len(stmt.kids)
            counts_of(i) ==
                analyze_stmt(stmt.kids[i], target_names, HelperConfig, hops).counts
            choices == {k \in [1..n -> 0..2] : \A i \in 1..n : k[i] \in counts_of(i)}
            RECURSIVE total(_, _)
            total(k, i) == IF i = 0 THEN 0 ELSE k[i] + total(k, i - 1)
        IN  pr.counts = {IF total(k, n) <= 2 THEN total(k, n) ELSE 2 : k \in choices}

\* A body of two statements, an if without else over a target call and a
\* target call: the sums 0 + 1 and 1 + 1.
C23_Witness ==
    /\ pc = "counted"
    /\ stmt = Compound(<<If(TargetCall), TargetCall>>)
    /\ pr.counts = {1, 2}

\* C24: strict-plus reports the reason of the first check that fails, in the
\* order "no-body", "unknown-control-flow", "path-counts=<sorted counts>" (0
\* among the counts without an early guard), "no-calls", the thin-alias
\* rejection, "reject: multi-call-per-path"; it keeps the function when none
\* fails, so never one whose path result is unknown or whose counts contain 0
\* without a recognized early guard.
C24_StrictCheckOrder ==
    pc = "strict" =>
        LET body == function_body_cursor(fn)
            prb == analyze_stmt(body, target_names, HelperConfig, 2)
            guard == has_early_guard_return(fn, HelperConfig)
            e == strict_evidence(fn)
            thin == thin_alias_rejection(e, cat, policy)
            unguarded_zero == 0 \in prb.counts /\ ~guard
            multi == /\ \E c \in prb.counts : c >= 2
                     /\ ~(Len(e.hit_locs) = 2 /\ is_atomic_pair(e.apis))
            listed == [c \in SUBSET {0, 1, 2} |->
                        IF c = {0} THEN "[0]"
                        ELSE IF c = {0, 1} THEN "[0, 1]"
                        ELSE IF c = {0, 2} THEN "[0, 2]"
                        ELSE IF c = {0, 1, 2} THEN "[0, 1, 2]"
                        ELSE "no 0"]
        IN  IF body = NoNode THEN ~res.keep /\ res.reason = <<"no-body">>
            ELSE /\ res.reason[1] =
                       (IF prb.unknown THEN "unknown-control-flow"
                        ELSE IF unguarded_zero THEN "path-counts="
                        ELSE IF Len(e.hit_locs) = 0 THEN "no-calls"
                        ELSE IF thin # "" THEN thin
                        ELSE IF multi THEN "reject: multi-call-per-path"
                        ELSE "ok")
                 /\ res.keep <=> res.reason[1] = "ok"
                 /\ res.reason[1] = "path-counts=" => res.reason[2] = listed[prb.counts]
                 /\ res.keep => ~prb.unknown /\ ~unguarded_zero

\* Every reason of the order is reported for some function, and kept functions
\* exist: here the body `log(fd);`, which has no call of a target and a path
\* without a call: path-counts is reported, not no-calls.
C24_Witness ==
    /\ pc = "strict"
    /\ function_body_cursor(fn) = Compound(<<CallStmt("log")>>)
    /\ res.reason = <<"path-counts=", "[0]">>
    /\ Len(strict_evidence(fn).hit_locs) = 0

-----------------------------------------------------------------------------
(* Argument pass-through *)

\* The arg_pass value the rule gives for parameters P and the matching calls:
\* every argument of some call a direct reference to a distinct parameter,
\* the set of them equal to P; else the number of parameters passed directly.
arg_pass_rule(params, calls) ==
    LET P == Range(params)
        keys(i) == direct_keys(extract_call_args(calls[i].call), params, 1)
        all_at(i) == /\ \A k \in 1..Len(keys(i)) : keys(i)[k] \in P
                     /\ \A k, l \in 1..Len(keys(i)) : k # l => keys(i)[k] # keys(i)[l]
                     /\ Range(keys(i)) = P
        union == UNION {Range(keys(i)) \cap P : i \in 1..Len(calls)}
    IN  IF \E i \in 1..Len(calls) : all_at(i) THEN <<"yes - all">>
        ELSE IF union # {} THEN <<"yes - ">> \o decimal(Cardinality(union))
        ELSE <<"no">>

\* C25: for every function with parameter set P, of any size including zero,
\* arg_pass is "yes - all" exactly when at some matching call every argument
\* is a direct reference to a distinct parameter and these parameters are P;
\* otherwise it is "yes - k" for the k > 0 parameters passed directly at any
\* matching call, or "no" when there is none.
C25_ArgPassForEveryParameterSet ==
    pc = "passed" =>
        arg_ret_pass.arg_pass =
            arg_pass_rule(fn.params,
                          matching_calls_of(collect_target_calls(fn, target_names),
                                            arg_ret_pass.api, 1))

\* The same rule for the functions that have parameters.
C25_ArgPassWithParameters ==
    (pc = "passed" /\ fn.params # <<>>) =>
        arg_ret_pass.arg_pass =
            arg_pass_rule(fn.params,
                          matching_calls_of(collect_target_calls(fn, target_names),
                                            arg_ret_pass.api, 1))

-----------------------------------------------------------------------------
(* Return pass-through *)

\* The return statements at n and below, each with its location.
RECURSIVE return_sites(_, _)
return_sites(n, path) ==
    (IF n.kind = "RETURN_STMT" THEN {[ret |-> n, loc |-> path]} ELSE {})
    \cup UNION {return_sites(n.kids[i], Append(path, i)) : i \in 1..Len(n.kids)}

\* A return is direct: its expression, stripped, is a call at a matching site.
is_direct_return(site, call_locs) ==
    /\ site.ret.kids # <<>>
    /\ LET e == strip_noop(site.ret.kids[1], Append(site.loc, 1))
       IN  e.node.kind = "CALL_EXPR" /\ e.loc \in call_locs

\* The ret_pass value the rule gives for the returns of a function.
ret_pass_rule(result_type, sites, call_locs) ==
    LET direct == {s \in sites : is_direct_return(s, call_locs)}
    IN  IF result_type = "void" \/ sites = {} THEN <<"no">>
        ELSE IF direct = sites THEN <<"yes - all">>
        ELSE IF direct # {} THEN <<"yes - ">> \o decimal(Cardinality(direct))
        ELSE <<"no">>

\* C26: ret_pass is "no" when the return type is void or the body has no
\* return; otherwise, a return being direct iff its expression, stripped of
\* parentheses, casts and unexposed nodes, is a call at a matching call site,
\* it is "yes - all" when every return is direct, "yes - n" when n > 0 but not
\* all returns are direct, and "no" when none is.
C26_RetPassRule ==
    pc = "passed" =>
        arg_ret_pass.ret_pass =
            ret_pass_rule(fn.result_type, return_sites(fn.body, <<>>),
                          Range(locs_of(matching_calls_of(
                                            collect_target_calls(fn, target_names),
                                            arg_ret_pass.api, 1), 1)))

\* `if (c) return close(fd); return 0;` in a function returning int: one of
\* the two returns is direct.
C26_Witness ==
    /\ pc = "passed"
    /\ fn.result_type = "int"
    /\ arg_ret_pass.api = "close"
    /\ fn.body = Compound(<<If(Return(CallStmt("close"))), Return(Lit)>>)
    /\ arg_ret_pass.ret_pass = <<"yes - ", "1">>

-----------------------------------------------------------------------------
(* Provenance of the arguments *)

\* An expression holds a tainted value: it refers to a variable of T outside
\* every call expression.
RECURSIVE refers_to_tainted(_, _)
refers_to_tainted(e, T) ==
    CASE e.kind = "DECL_REF_EXPR" -> e.name \in T
      [] e.kind = "CALL_EXPR" -> FALSE
      [] OTHER -> \E i \in 1..Len(e.kids) : refers_to_tainted(e.kids[i], T)

\* The variables tainted after one pass over s in statement order, T being
\* the ones tainted before it.
RECURSIVE tainted_after(_, _)
tainted_after(s, T) ==
    LET RECURSIVE through(_, _)
        through(i, U) == IF i > Len(s.kids) THEN U
                         ELSE through(i + 1, tainted_after(s.kids[i], U))
    IN  CASE s.kind = "VAR_DECL" ->
                IF \E i \in 1..Len(s.kids) : refers_to_tainted(s.kids[i], T)
                THEN T \cup {s.name} ELSE T
          [] s.kind = "BINARY_OPERATOR" ->
                IF /\ Len(s.kids) = 2
                   /\ s.kids[1].kind = "DECL_REF_EXPR"
                   /\ refers_to_tainted(s.kids[2], T)
                THEN T \cup {s.kids[1].name} ELSE T
          [] s.kind = "RETURN_STMT" -> T
          [] OTHER -> through(1, T)

every_argument_tainted(calls, T) ==
    \A c \in 1..Len(calls) :
        \A a \in 1..Len(extract_call_args(calls[c])) :
            refers_to_tainted(extract_call_args(calls[c])[a], T)

\* C27: check_arguments_provenance returns true iff every argument of every
\* counted call site is tainted, the taint being seeded on the parameters,
\* carried in one pass in statement order through initialized declarations
\* and assignments to a direct variable reference, and never through the
\* value of a call expression.
C27_ProvenanceIffEveryArgumentTainted ==
    (pc = "strict" /\ res.keep) =>
        (res.derived_ok <=>
            every_argument_tainted(Calls(collect_target_calls(fn, target_names)),
                                   tainted_after(fn.body, Range(fn.params))))

\* `r = g; g = fd; close(r);`: the one pass meets r = g while g is clean, so
\* the argument of close is clean.
C27_Witness ==
    /\ pc = "strict"
    /\ res.keep
    /\ fn.body = Compound(<<Assign("r", Use("g")), Assign("g", Use("fd")),
                            Call("close", <<Use("r")>>)>>)
    /\ ~res.derived_ok
    /\ Len(res.derivation_trace) = 1

\* `int r = fd; open(fd, 0); close(r + 0);`: both sites pass.
C27_WitnessDerived ==
    /\ pc = "strict"
    /\ res.keep
    /\ res.derived_ok
    /\ Len(res.derivation_trace) = 3

-----------------------------------------------------------------------------
(* _call_hits_target_via_n_hops, frame by frame, over every small set of
   visible helper definitions *)

\* The helpers that may have a definition in sight.
HopNames == {"ha", "hb"}

\* The children of a helper body: a call, given by its callee (foo has no
\* definition in sight), or "stmt", a child that is no call.
HopChildren == {"ha", "hb", "close", "foo", "stmt"}

\* A body _is_small_function turns down.
BigBody == <<"stmt", "stmt", "stmt", "stmt", "stmt", "stmt", "close">>

HopBodies ==
    {<<>>} \cup {<<a>> : a \in HopChildren} \cup {<<a, b>> : a, b \in HopChildren}
    \cup {BigBody}

\* The max_hops a resolution is started with.
HopsTried == 0..3

\* The tests before the callee is entered.
hop_refused(w) ==
    \/ w.max_hops < 1
    \/ w.call \notin DOMAIN w.defs
    \/ Len(w.defs[w.call]) > MaxSmallStmts
    \/ w.call \in w.seen

\* A loop that stays at the same child.
same_child(i) == i

\* `for ch in body.get_children()`: the child after child i.
next_child(i) == i + 1

hop_frame(callee, max_hops) == [callee |-> callee, i |-> 1, max_hops |-> max_hops]

hop_top(w) == w.stack[Len(w.stack)]

hop_pop(w, ret) == [w EXCEPT !.stack = SubSeq(@, 1, Len(@) - 1), !.ret = ret]

hop_advance(w) == [w EXCEPT !.stack[Len(w.stack)].i = next_child(@)]

InitHops ==
    /\ pc = "hops_call"
    /\ walk \in {[defs |-> d, call |-> c, max_hops |-> h, stack |-> <<>>, seen |-> {},
                  ret |-> FALSE] :
                    d \in [HopNames -> HopBodies], c \in {"ha", "foo"}, h \in HopsTried}
    /\ fn = NoDef
    /\ cat = {}
    /\ policy = "default"
    /\ res = NoVerdict
    /\ stmt = NoNode
    /\ hops = 1
    /\ pr = NoPathResult
    /\ arg_ret_pass = NoPasses
    /\ DriverIdle

\* A call of the function up to the loop over the body of the callee.
HopsEnter ==
    /\ pc = "hops_call"
    /\ walk' = IF hop_refused(walk) THEN [walk EXCEPT !.ret = FALSE]
               ELSE [walk EXCEPT !.seen = @ \cup {walk.call},
                                 !.stack = Append(@, hop_frame(walk.call, walk.max_hops))]
    /\ pc' = IF hop_refused(walk) THEN "hops_return" ELSE "hops_loop"
    /\ UNCHANGED <<fn, cat, policy, res, stmt, hops, pr, arg_ret_pass, driverVars>>

\* One turn of the loop: the end of the body, a child that is no call, a
\* target, or the recursive call with max_hops - 1 and the shared seen.
HopsLoop ==
    /\ pc = "hops_loop"
    /\ LET top == hop_top(walk)
           body == walk.defs[top.callee]
       IN  IF top.i > Len(body)
           THEN walk' = hop_pop(walk, FALSE) /\ pc' = "hops_return"
           ELSE IF body[top.i] = "stmt"
           THEN walk' = hop_advance(walk) /\ pc' = "hops_loop"
           ELSE IF body[top.i] \in target_names
           THEN walk' = hop_pop(walk, TRUE) /\ pc' = "hops_return"
           ELSE /\ walk' = [walk EXCEPT !.call = body[top.i],
                                        !.max_hops = top.max_hops - 1]
                /\ pc' = "hops_call"
    /\ UNCHANGED <<fn, cat, policy, res, stmt, hops, pr, arg_ret_pass, driverVars>>

\* A call returned: to the caller of the resolution, or into the loop of the
\* frame below, which returns True at once or goes on with the next child.
HopsReturn ==
    /\ pc = "hops_return"
    /\ IF walk.stack = <<>>
       THEN walk' = walk /\ pc' = "hops_done"
       ELSE IF walk.ret
       THEN walk' = hop_pop(walk, TRUE) /\ pc' = "hops_return"
       ELSE walk' = hop_advance(walk) /\ pc' = "hops_loop"
    /\ UNCHANGED <<fn, cat, policy, res, stmt, hops, pr, arg_ret_pass, driverVars>>

NextHops == HopsEnter \/ HopsLoop \/ HopsReturn

\* The interpreter runs the call on: a step that can be taken is taken.
SpecHops == InitHops /\ [][NextHops]_vars /\ WF_vars(NextHops)

\* C28: for every set of visible helper definitions, self-recursive and
\* mutually recursive ones included, every call of
\* _call_hits_target_via_n_hops terminates and returns a boolean.
C28_HopsTerminate == <>(pc = "hops_done" /\ walk.stack = <<>> /\ walk.ret \in BOOLEAN)

\* ha calls hb and hb calls ha: the resolution started at ha with max_hops 3
\* entered both, met ha again, and returned False.
C28_Witness ==
    /\ pc = "hops_done"
    /\ walk.defs = [h \in HopNames |-> IF h = "ha" THEN <<"hb">> ELSE <<"ha">>]
    /\ walk.seen = {"ha", "hb"}
    /\ walk.max_hops = 1
    /\ ~walk.ret

\* ha calls itself and then close: the call of ha from ha is turned down and
\* the resolution returns True.
C28_WitnessSelfRecursive ==
    /\ pc = "hops_done"
    /\ walk.defs["ha"] = <<"ha", "close">>
    /\ walk.seen = {"ha"}
    /\ walk.ret

\* C29: in the modes accurate and relaxed, after any sequence of translation
\* units, every row has api_called among the target names of the catalog and
\* total_target_calls >= 1, and a function for which the analyzer returned
\* keep = false, zero hits or no API name adds no row.
C29_RowsOnlyForKeptTargetCallers ==
    /\ [](mode \in {"accurate", "relaxed"}
          => \A i \in 1..Len(rows) : /\ rows[i].api_called \in target_names
                                     /\ rows[i].total_target_calls >= 1)
    /\ [][(/\ mode \in {"accurate", "relaxed"}
           /\ pc = "functions"
           /\ tu.at <= Len(tu.funcs)
           /\ tu'.at = tu.at + 1
           /\ LET v == mode_verdict(mode, tu.funcs[tu.at], cat, policy)
              IN  ~v.keep \/ v.total_hits = 0 \/ v.api_name = "")
          => (rows' = rows)]_vars

\* Mode relaxed on a.c and p.c: wclose has its row with one call of close,
\* and g and main of p.c, which call no target, have none.
C29_Witness ==
    /\ pc = "done"
    /\ mode = "relaxed"
    /\ \E k \in 1..Len(parses) : parses[k].src = "p.c" /\ parses[k].ok
    /\ \E i \in 1..Len(rows) : /\ rows[i].function = "wclose"
                               /\ rows[i].api_called = "close"
                               /\ rows[i].total_target_calls = 1
    /\ \A i \in 1..Len(rows) : rows[i].function \notin {"g", "main"}

-----------------------------------------------------------------------------
(* Provenance and the decision of strict-plus *)

\* The fields of a verdict that make the decision.
decision_of(v) ==
    [keep |-> v.keep, reason |-> v.reason, api_called |-> v.api_name,
     hit_locs |-> v.hit_locs, pair_used |-> v.pair_used,
     via_helper_hop |-> v.via_helper_hop]

\* What check_arguments_provenance can return for some function and calls.
ProvenanceResults ==
    {[ok |-> TRUE, trace |-> <<>>],
     [ok |-> FALSE, trace |-> <<trace_entry(0, [t |-> FALSE, trace |-> <<>>])>>],
     [ok |-> TRUE, trace |-> <<trace_entry(0, [t |-> TRUE, trace |-> <<[param |-> "fd"]>>])>>]}

\* C30: in strict-plus the provenance analysis never changes the decision:
\* keep, reason, api_called, hit_locs, pair_used and via_helper_hop are the
\* same whatever check_arguments_provenance returns; it only sets
\* derived_from_params and derivation_trace.
C30_ProvenanceLeavesDecision ==
    pc = "strict" =>
        \A prov \in ProvenanceResults :
            LET v == strict_decision(function_body_cursor(fn),
                                     analyze_stmt(function_body_cursor(fn), target_names,
                                                  HelperConfig, 2),
                                     has_early_guard_return(fn, HelperConfig),
                                     strict_evidence(fn),
                                     thin_alias_rejection(strict_evidence(fn), cat, policy),
                                     prov)
            IN  /\ decision_of(v) = decision_of(res)
                /\ v.keep => (v.derived_ok = prov.ok /\ v.derivation_trace = prov.trace)
                /\ v = [res EXCEPT !.derived_ok = v.derived_ok,
                                   !.derivation_trace = v.derivation_trace]

\* `g = r; close(g);`: the argument of close is not derived from the
\* parameter, and the function is accepted with derived_from_params = false.
C30_Witness ==
    /\ pc = "strict"
    /\ fn.body = Compound(<<Assign("g", Use("r")), Call("close", <<Use("g")>>)>>)
    /\ res.keep
    /\ res.reason = <<"ok">>
    /\ ~res.derived_ok

=============================================================================
